---- MODULE Spec2Model ----
(***************************************************************************)
(* biosim4-web: the evolution core (gene codec, neural-net builder,        *)
(* pheromone layer, population queues, simulator) and the worker that      *)
(* drives it, as state machines.                                           *)
(*                                                                         *)
(* Specifications:                                                         *)
(*   SpecCodec    geneToUint32 / uint32ToGene on sampled words and genes   *)
(*   SpecNet      buildNeuralNet on every genome up to MaxGenomeLen        *)
(*   SpecSignals  the Signals class under set/increment/emit/fade          *)
(*   SpecFade     one emit on a fresh layer, then fades                    *)
(*   SpecSim      a Simulator driven through its public methods            *)
(*   SpecStep     stepOnce taken apart: one agent, one queue record a time *)
(*   SpecLoop     stepOnce / endGeneration as the free-running loop calls  *)
(*                them, generation after generation                        *)
(*   SpecWorker   the web worker: commands in, timer callbacks, events out *)
(*   SpecReconfigure  the worker under init, reset, step and updateParams  *)
(*   SpecRestart  the worker started again after its last generation       *)
(*   SpecSettings the SET_* actions applied again and again to one agent   *)
(*   SpecPlacement, SpecSpawn, SpecSimilarity, SpecSurvival                *)
(*                library functions called on sampled arguments            *)
(***************************************************************************)
EXTENDS Integers, Sequences, FiniteSets, TLC

VARIABLES
    cPhase,         \* codec: which conversion has been applied
    cWord0,         \* codec: the 32-bit word drawn as input
    cGene0,         \* codec: the structured gene drawn as input
    cWord,          \* codec: current packed value
    cGene,          \* codec: current structured value
    netGenome,      \* builder: the genome handed to buildNeuralNet
    netNeurons,     \* builder: numInternalNeurons
    nnet,           \* builder: the NeuralNet returned, or NoNet
    signals,        \* pheromones: a Signals object (sizeX, sizeY, numLayers, layers)
    sigOps,         \* pheromones: number of calls made on the object
    sigLastOp,      \* pheromones: the method called last
    simulator,      \* the Simulator object, or NoSimulator (worker: null)
    running,        \* worker: the free-running loop is on
    stepsPerFrame,  \* worker: steps per simulationLoop callback
    animFrameTimeout, \* worker: handle of the timer set last, or NoTimer
    timers,         \* worker: handles of the pending setTimeout callbacks
    posted,         \* worker: the events posted by the last handler
    lastOp,         \* the method or command handled last
    lastArg,        \* worker: the arguments of the command handled last
    libOp,          \* library: the function called last
    libIn,          \* library: its arguments
    libOut,         \* library: its result
    pc,             \* stepOnce taken apart: the part of the method reached
    cursor,         \* stepOnce taken apart: the agent or queue record next
    acted,          \* stepOnce taken apart: what the last part acted on
    stepStart,      \* stepOnce taken apart: the world when the step began
    moveIntoKilled  \* last stepOnce: pairs <<a, b>>, a tried to enter b's cell
                    \* and b's death was queued in that step

codecVars == <<cPhase, cWord0, cGene0, cWord, cGene>>
netVars == <<netGenome, netNeurons, nnet>>
sigVars == <<signals, sigOps, sigLastOp>>
workerVars == <<running, stepsPerFrame, animFrameTimeout, timers, posted,
               lastArg>>
libVars == <<libOp, libIn, libOut>>
stepVars == <<pc, cursor, acted, stepStart>>
simVars == <<simulator, lastOp, moveIntoKilled, workerVars>>
vars == <<codecVars, netVars, sigVars, simVars, libVars, stepVars>>

----
\* Gene codec (types.ts)

NEURON == 0
SENSOR == 1
ACTION_SINK == 1
GENE_WEIGHT_DIVISOR == 8192
NUM_SENSES == 21
NUM_ACTIONS == 17

Pow2(n) == 2 ^ n

\* The model checker's integers are 32-bit signed, so an unsigned 32-bit
\* value is held as its two 16-bit halves: val = hi * 2^16 + lo.
Uint32(hi, lo) == [hi |-> hi, lo |-> lo]

\* JS `x & (2^k - 1)` on a two's-complement integer
BitAnd(x, k) == x % Pow2(k)

\* JS `(val >>> k) & (2^n - 1)` for k >= 16: the bits come from the high half
HighBits(val, k, n) == BitAnd(val.hi \div Pow2(k - 16), n)

\* The five fields occupy disjoint bit ranges, so the bitwise OR of the
\* shifted fields is their sum; `>>> 0` reads the result as unsigned.
geneToUint32(g) ==
    Uint32( BitAnd(g.sourceType, 1) * Pow2(15)
              + BitAnd(g.sourceId, 7) * Pow2(8)
              + BitAnd(g.sinkType, 1) * Pow2(7)
              + BitAnd(g.sinkId, 7),
            BitAnd(g.weightAsInt, 16) )

\* a decoder whose sign test is off by one (> 0x8000)
uint32ToGeneOffByOne(val) ==
    [ sourceType  |-> HighBits(val, 31, 1),
      sourceId    |-> HighBits(val, 24, 7),
      sinkType    |-> HighBits(val, 23, 1),
      sinkId      |-> HighBits(val, 16, 7),
      weightAsInt |-> IF BitAnd(val.lo, 16) > 32768
                        THEN BitAnd(val.lo, 16) - 65536
                        ELSE BitAnd(val.lo, 16) ]

uint32ToGene(val) ==
    [ sourceType  |-> HighBits(val, 31, 1),
      sourceId    |-> HighBits(val, 24, 7),
      sinkType    |-> HighBits(val, 23, 1),
      sinkId      |-> HighBits(val, 16, 7),
      weightAsInt |-> IF BitAnd(val.lo, 16) > 32767
                        THEN BitAnd(val.lo, 16) - 65536
                        ELSE BitAnd(val.lo, 16) ]

geneWeight(g) == [num |-> g.weightAsInt, den |-> GENE_WEIGHT_DIVISOR]

\* Inputs of the codec: every combination of boundary field values.
SampleIds == {0, 1, 64, 127}
SampleWeights == {-32768, -8192, -1, 0, 1, 32767}
SampleLow16 == {0, 1, 32767, 32768, 65535}

SampleGenes ==
    [ sourceType : {0, 1}, sourceId : SampleIds,
      sinkType : {0, 1}, sinkId : {0, 127},
      weightAsInt : SampleWeights ]

SampleHigh16 ==
    { st * Pow2(15) + sid * Pow2(8) + kt * Pow2(7) + kid :
        st \in {0, 1}, sid \in {0, 127}, kt \in {0, 1}, kid \in {0, 85, 127} }

SampleWords == { Uint32(h, l) : h \in SampleHigh16, l \in SampleLow16 }

NoGene == [none |-> TRUE]
NoWord == [none |-> TRUE]

CodecInit ==
    /\ cPhase = "start"
    /\ cWord0 \in SampleWords
    /\ cGene0 \in SampleGenes
    /\ cWord = NoWord
    /\ cGene = NoGene

CodecIdle ==
    /\ cPhase = "idle"
    /\ cWord0 = NoWord
    /\ cGene0 = NoGene
    /\ cWord = NoWord
    /\ cGene = NoGene

\* unpack the drawn word
CodecUnpack ==
    /\ cPhase = "start"
    /\ cGene' = uint32ToGene(cWord0)
    /\ cPhase' = "unpacked"
    /\ UNCHANGED <<cWord0, cGene0, cWord, netVars, stepVars, sigVars, simVars, libVars>>

\* pack the gene obtained from the drawn word
CodecRepack ==
    /\ cPhase = "unpacked"
    /\ cWord' = geneToUint32(cGene)
    /\ cPhase' = "repacked"
    /\ UNCHANGED <<cWord0, cGene0, cGene, netVars, stepVars, sigVars, simVars, libVars>>

\* pack the drawn gene
CodecPack ==
    /\ cPhase = "start"
    /\ cWord' = geneToUint32(cGene0)
    /\ cPhase' = "packed"
    /\ UNCHANGED <<cWord0, cGene0, cGene, netVars, stepVars, sigVars, simVars, libVars>>

\* unpack the word obtained from the drawn gene
CodecReunpack ==
    /\ cPhase = "packed"
    /\ cGene' = uint32ToGene(cWord)
    /\ cPhase' = "reunpacked"
    /\ UNCHANGED <<cWord0, cGene0, cWord, netVars, stepVars, sigVars, simVars, libVars>>

----
\* Neural-net builder (neural-net.ts)

MaxGenomeLen == 3
MaxNeurons == 3

NoNet == [none |-> TRUE]

\* Raw gene endpoints: internal neurons 0..MaxNeurons-1 (reduced modulo
\* numInternalNeurons at build), one sensor id and one action id above the
\* ranges of the enums, so that every remapping branch is exercised.
NetSources ==
    [sourceType : {NEURON}, sourceId : 0 .. (MaxNeurons - 1)]
        \cup [sourceType : {SENSOR}, sourceId : {22}]
NetSinks ==
    [sinkType : {NEURON}, sinkId : 0 .. (MaxNeurons - 1)]
        \cup [sinkType : {ACTION_SINK}, sinkId : {20}]
NetGenes ==
    { [ sourceType |-> s.sourceType, sourceId |-> s.sourceId,
        sinkType |-> k.sinkType, sinkId |-> k.sinkId,
        weightAsInt |-> 4096 ] : s \in NetSources, k \in NetSinks }
NetGenomes == UNION { [1 .. n -> NetGenes] : n \in 0 .. MaxGenomeLen }

\* lines 25-38: one connection per gene, endpoints renumbered
MakeConnection(gene, numInternalNeurons) ==
    [ sourceType |-> gene.sourceType,
      sourceId   |-> IF gene.sourceType = SENSOR
                       THEN gene.sourceId % NUM_SENSES
                       ELSE gene.sourceId % numInternalNeurons,
      sinkType   |-> gene.sinkType,
      sinkId     |-> IF gene.sinkType = ACTION_SINK
                       THEN gene.sinkId % NUM_ACTIONS
                       ELSE gene.sinkId % numInternalNeurons,
      weight     |-> geneWeight(gene) ]

\* lines 47-51 and 67-72: driven[n] iff some connection sinks into neuron n
MarkDriven(connections, numInternalNeurons) ==
    [ n \in 0 .. (numInternalNeurons - 1) |->
        \E i \in 1 .. Len(connections) :
            /\ connections[i].sinkType = NEURON
            /\ connections[i].sinkId = n ]

\* lines 58-65: one backwards pass; `driven` is not updated during the pass,
\* and splice keeps the order of the connections that stay
PrunePass(connections, driven) ==
    LET Keep(conn) == ~(conn.sourceType = NEURON /\ ~driven[conn.sourceId])
    IN SelectSeq(connections, Keep)

\* a builder that prunes once and does not iterate
PruneLoopSinglePass(connections, driven, numInternalNeurons) ==
    LET kept == PrunePass(connections, driven)
    IN [connections |-> kept, driven |-> MarkDriven(kept, numInternalNeurons)]

RECURSIVE PruneLoop(_, _, _)
\* lines 55-73: while (changed) { pass; recompute driven }
PruneLoop(connections, driven, numInternalNeurons) ==
    LET kept == PrunePass(connections, driven)
        changed == Len(kept) < Len(connections)
        redriven == MarkDriven(kept, numInternalNeurons)
    IN IF changed
         THEN PruneLoop(kept, redriven, numInternalNeurons)
         ELSE [connections |-> kept, driven |-> redriven]

buildNeuralNet(genome, numInternalNeurons) ==
    LET connections ==
            [i \in 1 .. Len(genome) |->
                MakeConnection(genome[i], numInternalNeurons)]
        pruned == PruneLoop(connections,
                      MarkDriven(connections, numInternalNeurons),
                      numInternalNeurons)
    IN [ connections |-> pruned.connections,
         neurons |-> [ n \in 0 .. (numInternalNeurons - 1) |->
                         [output |-> "0.5", driven |-> pruned.driven[n]] ] ]

NetInit ==
    /\ netGenome \in NetGenomes
    /\ netNeurons \in 1 .. MaxNeurons
    /\ nnet = NoNet

NetIdle ==
    /\ netGenome = <<>>
    /\ netNeurons = 0
    /\ nnet = NoNet

\* createIndiv's call: nnet = buildNeuralNet(genome, params.maxNumberNeurons)
NetBuild ==
    /\ nnet = NoNet
    /\ netNeurons >= 1
    /\ nnet' = buildNeuralNet(netGenome, netNeurons)
    /\ UNCHANGED <<netGenome, netNeurons, codecVars, stepVars, sigVars, simVars, libVars>>

----
\* Pheromone layers (signals.ts)

MaxSigOps == 3

\* constructor arguments <<sizeX, sizeY, numLayers>>
SignalShapes == { <<2, 2, 1>>, <<3, 1, 1>>, <<1, 1, 2>> }

Coord(x, y) == [x |-> x, y |-> y]

\* Signals.idx / Grid.idx: row-major
Idx(sizeX, x, y) == y * sizeX + x

\* Signals.isInBounds / Grid.isInBounds
IsInBounds(sizeX, sizeY, loc) ==
    loc.x >= 0 /\ loc.x < sizeX /\ loc.y >= 0 /\ loc.y < sizeY

NewSignals(sizeX, sizeY, numLayers) ==
    [ sizeX |-> sizeX, sizeY |-> sizeY, numLayers |-> numLayers,
      layers |-> [ l \in 0 .. (numLayers - 1) |->
                     [ i \in 0 .. (sizeX * sizeY - 1) |-> 0 ] ] ]

\* Real arguments are carried in halves (v2 = 2 * v) so that .5 is exact.
\* Math.round(v) = floor(v + 0.5)
MathRound2(v2) == (v2 + 1) \div 2

Min(a, b) == IF a < b THEN a ELSE b
Max(a, b) == IF a > b THEN a ELSE b

\* a store that keeps the low byte and does not saturate
ClampByteWrapping2(v2) == Max(0, MathRound2(v2)) % 256

\* Math.min(255, Math.max(0, Math.round(v))), then the Uint8Array store
ClampByte2(v2) == Min(255, Max(0, MathRound2(v2))) % 256

SignalsGuard(sig, layerNum, loc) ==
    IsInBounds(sig.sizeX, sig.sizeY, loc) /\ layerNum < sig.numLayers

SignalsSet(sig, layerNum, loc, val2) ==
    IF ~SignalsGuard(sig, layerNum, loc) THEN sig
    ELSE [sig EXCEPT !.layers[layerNum][Idx(sig.sizeX, loc.x, loc.y)] =
              ClampByte2(val2)]

SignalsIncrement(sig, layerNum, loc, amount2) ==
    IF ~SignalsGuard(sig, layerNum, loc) THEN sig
    ELSE LET i == Idx(sig.sizeX, loc.x, loc.y)
         IN [sig EXCEPT !.layers[layerNum][i] =
                ClampByte2(2 * sig.layers[layerNum][i] + amount2)]

\* Math.round(255 * (1 - dist / (radius + 1))) with dist = sqrt(d2) and
\* radius = radius2 / 2: the largest s with
\*   1020 * sqrt(d2) <= (511 - 2 s) * (radius2 + 2)
EmitStrength(d2, radius2) ==
    LET Fits(t) == /\ 511 - 2 * t >= 0
                   /\ 1040400 * d2 <=
                        ((511 - 2 * t) * (radius2 + 2)) * ((511 - 2 * t) * (radius2 + 2))
    IN CHOOSE t \in 0 .. 255 :
          Fits(t) /\ (t = 255 \/ ~Fits(t + 1))

\* the cells emit visits: |dx|,|dy| <= floor(radius), dx^2+dy^2 <= radius^2,
\* in bounds; each is incremented once
SignalsEmit(sig, layerNum, center, radius2) ==
    LET iRadius == radius2 \div 2
        Offsets == { d \in (-iRadius .. iRadius) \X (-iRadius .. iRadius) :
                        4 * (d[1] * d[1] + d[2] * d[2]) <= radius2 * radius2 }
        Hit(x, y) == <<x - center.x, y - center.y>> \in Offsets
        D2(x, y) == (x - center.x) * (x - center.x) + (y - center.y) * (y - center.y)
    IN IF layerNum >= sig.numLayers THEN sig
       ELSE [sig EXCEPT !.layers[layerNum] =
               [ i \in DOMAIN @ |->
                   LET x == i % sig.sizeX
                       y == i \div sig.sizeX
                   IN IF Hit(x, y)
                        THEN ClampByte2(2 * @[i]
                               + 2 * Max(1, EmitStrength(D2(x, y), radius2)))
                        ELSE @[i] ] ]

\* a fade that leaves the weakest signal in place
SignalsFadeSticky(sig, layerNum) ==
    IF layerNum >= sig.numLayers THEN sig
    ELSE [sig EXCEPT !.layers[layerNum] =
            [ i \in DOMAIN @ |-> IF @[i] > 1 THEN Max(0, @[i] - 1) ELSE @[i] ] ]

SignalsFade(sig, layerNum) ==
    IF layerNum >= sig.numLayers THEN sig
    ELSE [sig EXCEPT !.layers[layerNum] =
            [ i \in DOMAIN @ |-> IF @[i] > 0 THEN Max(0, @[i] - 1) ELSE @[i] ] ]

SignalsZeroFill(sig) ==
    [sig EXCEPT !.layers = [ l \in DOMAIN @ |-> [ i \in DOMAIN @[l] |-> 0 ] ] ]

NoSignals == [none |-> TRUE]

\* arguments of the calls: layers 0..numLayers (one past the last), every
\* cell and two cells outside, values below, inside and above the byte range
SigLayerArgs == 0 .. signals.numLayers
SigLocArgs ==
    { Coord(x, y) : x \in -1 .. signals.sizeX, y \in 0 .. (signals.sizeY - 1) }
SigSetVals2 == { -2, 257, 600 }
SigAmounts2 == { -3, 1, 510 }
SigRadii2 == { 2, 3 }

SigInit ==
    /\ \E shape \in SignalShapes :
          signals = NewSignals(shape[1], shape[2], shape[3])
    /\ sigOps = 0
    /\ sigLastOp = "new"

SigIdle ==
    /\ signals = NoSignals
    /\ sigOps = 0
    /\ sigLastOp = "idle"

SigCall(op, result) ==
    /\ signals # NoSignals
    /\ sigOps < MaxSigOps
    /\ signals' = result
    /\ sigOps' = sigOps + 1
    /\ sigLastOp' = op
    /\ UNCHANGED <<codecVars, netVars, stepVars, simVars, libVars>>

SigSet ==
    /\ signals # NoSignals
    /\ \E l \in SigLayerArgs, loc \in SigLocArgs, v2 \in SigSetVals2 :
          SigCall("set", SignalsSet(signals, l, loc, v2))

SigIncrement ==
    /\ signals # NoSignals
    /\ \E l \in SigLayerArgs, loc \in SigLocArgs, a2 \in SigAmounts2 :
          SigCall("increment", SignalsIncrement(signals, l, loc, a2))

SigEmit ==
    /\ signals # NoSignals
    /\ \E l \in SigLayerArgs, c \in SigLocArgs, r2 \in SigRadii2 :
          SigCall("emit", SignalsEmit(signals, l, c, r2))

SigFade ==
    /\ signals # NoSignals
    /\ \E l \in SigLayerArgs : SigCall("fade", SignalsFade(signals, l))

SigZeroFill ==
    /\ signals # NoSignals
    /\ SigCall("zeroFill", SignalsZeroFill(signals))

----
\* One emit on a fresh layer, then only fades

MaxFades == 256

\* the layers emitted on: a 3x3 and a 4x2 one
FadeShapes == { <<3, 3, 1>>, <<4, 2, 1>> }

\* emit's centre: every cell of the layer and the cells next to its left edge
FadeCentres(sig) ==
    { Coord(x, y) : x \in -1 .. (sig.sizeX - 1), y \in 0 .. (sig.sizeY - 1) }

\* twice the radius: 1, 1.5 (the default and the one executeActions passes), 2
FadeRadii2 == { 2, 3, 4 }

FadeInit ==
    /\ \E shape \in FadeShapes :
          signals = NewSignals(shape[1], shape[2], shape[3])
    /\ sigOps = 0
    /\ sigLastOp = "fresh"

\* signals.emit(0, centre, radius) on the all-zero layer
FadeEmitOnce ==
    /\ sigLastOp = "fresh"
    /\ \E c \in FadeCentres(signals), r2 \in FadeRadii2 :
          signals' = SignalsEmit(signals, 0, c, r2)
    /\ sigLastOp' = "emitOnce"
    /\ UNCHANGED <<sigOps, codecVars, netVars, stepVars, simVars, libVars>>

\* signals.fade(0), with sigOps counting the fades since the emit
FadeAgain ==
    /\ sigLastOp \in {"emitOnce", "fadeAgain"}
    /\ sigOps < MaxFades
    /\ signals' = SignalsFade(signals, 0)
    /\ sigOps' = sigOps + 1
    /\ sigLastOp' = "fadeAgain"
    /\ UNCHANGED <<codecVars, netVars, stepVars, simVars, libVars>>

----
\* Grid (grid.ts)

EMPTY == 0
BARRIER == 65535

NewGrid(sizeX, sizeY) ==
    [ sizeX |-> sizeX, sizeY |-> sizeY,
      data |-> [ i \in 0 .. (sizeX * sizeY - 1) |-> EMPTY ] ]

GridCells(grid) ==
    { Coord(x, y) : x \in 0 .. (grid.sizeX - 1), y \in 0 .. (grid.sizeY - 1) }

GridIsInBounds(grid, loc) == IsInBounds(grid.sizeX, grid.sizeY, loc)

GridAt(grid, loc) == grid.data[Idx(grid.sizeX, loc.x, loc.y)]

\* the cells are Uint16: a stored value is reduced modulo 2^16
GridSet(grid, loc, val) ==
    [grid EXCEPT !.data[Idx(grid.sizeX, loc.x, loc.y)] = val % 65536]

\* a test that takes every cell without an agent for empty
GridIsNotOccupiedAt(grid, loc) ==
    GridAt(grid, loc) = EMPTY \/ GridAt(grid, loc) = BARRIER

GridIsEmptyAt(grid, loc) == GridAt(grid, loc) = EMPTY

GridIsBarrierAt(grid, loc) == GridAt(grid, loc) = BARRIER

GridIsOccupiedAt(grid, loc) ==
    GridAt(grid, loc) # EMPTY /\ GridAt(grid, loc) # BARRIER

GridClear(grid) == [grid EXCEPT !.data = [ i \in DOMAIN @ |-> EMPTY ]]

----
\* Barriers (barriers.ts)

\* rng.nextInt(max) = floor(next() * max) with next() in [0, 1)
NextIntRange(max) == 0 .. Max(max - 1, 0)

\* setBarrier on every cell of a set: cells out of bounds are skipped
SetBarriers(grid, cells) ==
    [grid EXCEPT !.data =
        [ i \in DOMAIN @ |->
            IF Coord(i % grid.sizeX, i \div grid.sizeX) \in cells
              THEN BARRIER ELSE @[i] ] ]

VerticalBar(grid, x) ==
    LET startY == grid.sizeY \div 4
        endY == grid.sizeY - startY
    IN SetBarriers(grid, { Coord(x, y) : y \in startY .. (endY - 1) })

HorizontalBar(grid) ==
    LET midY == grid.sizeY \div 2
        startX == grid.sizeX \div 4
        endX == grid.sizeX - startX
    IN SetBarriers(grid, { Coord(x, midY) : x \in startX .. (endX - 1) })

FiveBlocks(grid) ==
    LET halfWidth == Max(1, grid.sizeX \div 50)
        halfHeight == Max(4, grid.sizeY \div 6)
        centers == { Coord(grid.sizeX \div 4, grid.sizeY \div 4),
                     Coord((3 * grid.sizeX) \div 4, grid.sizeY \div 4),
                     Coord(grid.sizeX \div 2, grid.sizeY \div 2),
                     Coord(grid.sizeX \div 4, (3 * grid.sizeY) \div 4),
                     Coord((3 * grid.sizeX) \div 4, (3 * grid.sizeY) \div 4) }
    IN SetBarriers(grid,
          { Coord(c.x + dx, c.y + dy) :
              c \in centers, dx \in -halfWidth .. halfWidth,
              dy \in -halfHeight .. halfHeight })

\* the draws createBarrier takes from the PRNG (one value stands for none)
BarrierDraws(grid, barrierType) ==
    IF barrierType = "VERTICAL_BAR_RANDOM"
      THEN NextIntRange(grid.sizeX \div 2)
      ELSE {0}

\* FLOATING_ISLANDS and SPOTS are not among the configurations explored
createBarrier(grid, barrierType, draw) ==
    CASE barrierType = "NONE" -> grid
      [] barrierType = "VERTICAL_BAR_CONSTANT" ->
            VerticalBar(grid, grid.sizeX \div 2)
      [] barrierType = "VERTICAL_BAR_RANDOM" ->
            VerticalBar(grid, (grid.sizeX \div 4) + draw)
      [] barrierType = "FIVE_BLOCKS" -> FiveBlocks(grid)
      [] barrierType = "HORIZONTAL_BAR_CONSTANT" -> HorizontalBar(grid)

----
\* Directions (types.ts)

CENTER == 8

\* DIR_AS_COORD: N, NE, E, SE, S, SW, W, NW, CENTER
DirAsCoord(dir9) ==
    CASE dir9 = 0 -> Coord(0, -1)
      [] dir9 = 1 -> Coord(1, -1)
      [] dir9 = 2 -> Coord(1, 0)
      [] dir9 = 3 -> Coord(1, 1)
      [] dir9 = 4 -> Coord(0, 1)
      [] dir9 = 5 -> Coord(-1, 1)
      [] dir9 = 6 -> Coord(-1, 0)
      [] dir9 = 7 -> Coord(-1, -1)
      [] dir9 = 8 -> Coord(0, 0)

coordAdd(a, b) == Coord(a.x + b.x, a.y + b.y)

coordToCompass(dx, dy) ==
    CASE dx = 0 /\ dy = -1 -> 0
      [] dx = 1 /\ dy = -1 -> 1
      [] dx = 1 /\ dy = 0 -> 2
      [] dx = 1 /\ dy = 1 -> 3
      [] dx = 0 /\ dy = 1 -> 4
      [] dx = -1 /\ dy = 1 -> 5
      [] dx = -1 /\ dy = 0 -> 6
      [] dx = -1 /\ dy = -1 -> 7
      [] OTHER -> CENTER

----
\* Individuals and the population manager (indiv.ts, peeps.ts)

\* birthLoc, genome, network, responsiveness, oscillator and probe distance
\* are not carried: nothing below reads them
createIndiv(index, loc) ==
    [ index |-> index, alive |-> TRUE, loc |-> loc,
      lastMoveDir |-> CENTER, age |-> 0 ]

\* the draws one agent may make, neural-net.ts lines 182-184 and 208-210
MaxAttempts == 10000

NoDraw == [none |-> TRUE]

\* the runs of non-empty cells drawn before the first empty one that are
\* followed: none, one, and the lengths around the limit
LeadingMisses == {0, 1, MaxAttempts - 2, MaxAttempts - 1, MaxAttempts}

\* do { loc = random cell; attempts++ } while (!isEmptyAt(loc) && attempts <
\* MaxAttempts), for a PRNG that draws `misses` non-empty cells and then an
\* empty one: the loop leaves with the first empty cell when it comes within
\* MaxAttempts draws, and with the non-empty cell drawn last otherwise
DrawLoop(grid, misses) ==
    LET empties == { c \in GridCells(grid) : GridIsEmptyAt(grid, c) }
        others == GridCells(grid) \ empties
    IN IF misses > 0 /\ others = {} THEN {}
       ELSE IF misses + 1 <= MaxAttempts
         THEN { [ loc |-> c, attempts |-> misses + 1, misses |-> misses ] :
                  c \in empties }
         ELSE { [ loc |-> c, attempts |-> MaxAttempts, misses |-> MaxAttempts ] :
                  c \in others }

\* createIndiv, indiv.ts line 34: buildNeuralNet indexes neurons[id %
\* maxNumberNeurons]; with no neurons the index is NaN and a genome that has
\* a gene from or to a neuron makes it throw a TypeError
CreateIndivOutcomes(params) ==
    IF params.maxNumberNeurons = 0 THEN {"built", "threw"} ELSE {"built"}

RECURSIVE PlacePopulation(_, _, _, _, _)
\* The placement loop shared by Peeps.init and Peeps.initFromGenomes, for
\* agents i..n.  The result is the set of outcomes: the agents placed, the
\* grid, whether createIndiv threw, and the draw that stopped the placement
\* (NoDraw when placement ran to the end or threw).
PlacePopulation(grid, individuals, i, n, params) ==
    IF i > n
      THEN { [ individuals |-> individuals, grid |-> grid, threw |-> FALSE,
               stopped |-> NoDraw ] }
    ELSE LET draws == UNION { DrawLoop(grid, k) : k \in LeadingMisses }
             placing == { d \in draws : ~(d.attempts >= MaxAttempts) }
         IN { [ individuals |-> individuals, grid |-> grid, threw |-> FALSE,
                stopped |-> d ] : d \in draws \ placing }
            \cup (IF placing # {} /\ "threw" \in CreateIndivOutcomes(params)
                    THEN { [ individuals |-> individuals, grid |-> grid,
                             threw |-> TRUE, stopped |-> NoDraw ] }
                    ELSE {})
            \cup UNION { PlacePopulation(GridSet(grid, c, i),
                            Append(individuals, createIndiv(i, c)),
                            i + 1, n, params) :
                         c \in { d.loc : d \in placing } }

PeepsInit(params, grid) ==
    PlacePopulation(grid, <<>>, 1, params.population, params)

PeepsInitFromGenomes(numGenomes, params, grid) ==
    PlacePopulation(grid, <<>>, 1, Min(numGenomes, params.population), params)

\* individuals[0] is the reserved null slot; before the first init the array
\* is empty and the size is -1, which every loop treats as no agents
PopulationSize(sim) == Len(sim.individuals)

LivingIndices(sim) ==
    { i \in 1 .. Len(sim.individuals) : sim.individuals[i].alive }

RECURSIVE DrainDeathsKeepsCell(_, _, _)
\* a death drain that leaves the dead agent's index in its cell
DrainDeathsKeepsCell(queue, k, st) ==
    IF k > Len(queue) THEN st
    ELSE LET idx == queue[k].indivIndex
         IN IF idx \in 1 .. Len(st.individuals) /\ st.individuals[idx].alive
              THEN DrainDeathsKeepsCell(queue, k + 1,
                      [st EXCEPT !.individuals[idx].alive = FALSE,
                                 !.deaths = @ + 1])
              ELSE DrainDeathsKeepsCell(queue, k + 1, st)

RECURSIVE DrainDeaths(_, _, _)
\* drainDeathQueue, records k.. of the queue; st.deaths counts the deaths
DrainDeaths(queue, k, st) ==
    IF k > Len(queue) THEN st
    ELSE LET idx == queue[k].indivIndex
         IN IF idx \in 1 .. Len(st.individuals) /\ st.individuals[idx].alive
              THEN DrainDeaths(queue, k + 1,
                      [st EXCEPT !.grid = GridSet(@, st.individuals[idx].loc, 0),
                                 !.individuals[idx].alive = FALSE,
                                 !.deaths = @ + 1])
              ELSE DrainDeaths(queue, k + 1, st)

\* a move drain that does not look at the destination
MoveAllowedUnchecked(grid, newLoc) == GridIsInBounds(grid, newLoc)

\* drainMoveQueue line 259
MoveAllowed(grid, newLoc) ==
    GridIsInBounds(grid, newLoc) /\ GridIsEmptyAt(grid, newLoc)

RECURSIVE DrainMoves(_, _, _)
\* drainMoveQueue, records k.. of the queue
DrainMoves(queue, k, st) ==
    IF k > Len(queue) THEN st
    ELSE LET idx == queue[k].indivIndex
             newLoc == queue[k].newLoc
         IN IF /\ idx \in 1 .. Len(st.individuals)
               /\ st.individuals[idx].alive
               /\ MoveAllowed(st.grid, newLoc)
              THEN DrainMoves(queue, k + 1,
                      [st EXCEPT
                         !.grid = GridSet(GridSet(@, st.individuals[idx].loc, 0),
                                          newLoc, idx),
                         !.individuals[idx].loc = newLoc])
              ELSE DrainMoves(queue, k + 1, st)

----
\* Actions (actions.ts)

\* What the network decides for one agent in one step: the movement after
\* quantisation (lines 176-177) and whether KILL_FORWARD fires (line 116).
Decisions(killEnable) ==
    [ dx : {-1, 0, 1}, dy : {-1, 0, 1},
      kill : IF killEnable THEN BOOLEAN ELSE {FALSE} ]

\* a KILL_FORWARD that does not look at killEnable
KillForwardUnconditional(sim, indiv, decision) ==
    IF decision.kill
      THEN LET targetLoc == coordAdd(indiv.loc, DirAsCoord(indiv.lastMoveDir))
           IN IF /\ GridIsInBounds(sim.grid, targetLoc)
                 /\ GridIsOccupiedAt(sim.grid, targetLoc)
                 /\ GridAt(sim.grid, targetLoc) \in 1 .. Len(sim.individuals)
                 /\ sim.individuals[GridAt(sim.grid, targetLoc)].alive
                THEN Append(sim.deathQueue,
                            [indivIndex |-> GridAt(sim.grid, targetLoc)])
                ELSE sim.deathQueue
      ELSE sim.deathQueue

\* KILL_FORWARD, lines 115-128: the death queue after the case
KillForward(sim, indiv, decision) ==
    IF sim.params.killEnable /\ decision.kill
      THEN LET targetLoc == coordAdd(indiv.loc, DirAsCoord(indiv.lastMoveDir))
           IN IF /\ GridIsInBounds(sim.grid, targetLoc)
                 /\ GridIsOccupiedAt(sim.grid, targetLoc)
                 /\ GridAt(sim.grid, targetLoc) \in 1 .. Len(sim.individuals)
                 /\ sim.individuals[GridAt(sim.grid, targetLoc)].alive
                THEN Append(sim.deathQueue,
                            [indivIndex |-> GridAt(sim.grid, targetLoc)])
                ELSE sim.deathQueue
      ELSE sim.deathQueue

\* an enqueue guard that only looks at the bounds
CanEnqueueMoveUnchecked(grid, newLoc) == GridIsInBounds(grid, newLoc)

\* line 181
CanEnqueueMove(grid, newLoc) ==
    GridIsInBounds(grid, newLoc) /\ GridIsEmptyAt(grid, newLoc)

\* the cell an agent tries to move to, lines 179-180
MoveTarget(indiv, decision) ==
    Coord(indiv.loc.x + decision.dx, indiv.loc.y + decision.dy)

\* an executeActions that turns the agent whether or not a move is queued
executeActionsTurnsAlways(sim, i, decision) ==
    LET indiv == sim.individuals[i]
        killed == KillForward(sim, indiv, decision)
        newLoc == MoveTarget(indiv, decision)
        moves == (decision.dx # 0 \/ decision.dy # 0)
                    /\ CanEnqueueMove(sim.grid, newLoc)
    IN [sim EXCEPT
          !.deathQueue = killed,
          !.moveQueue = IF moves
                          THEN Append(@, [indivIndex |-> indiv.index,
                                          newLoc |-> newLoc])
                          ELSE @,
          !.individuals[i].lastMoveDir =
              coordToCompass(decision.dx, decision.dy)]

\* an executeActions that moves the agent at once instead of queueing
executeActionsAtOnce(sim, i, decision) ==
    LET indiv == sim.individuals[i]
        killed == KillForward(sim, indiv, decision)
        newLoc == MoveTarget(indiv, decision)
        moves == (decision.dx # 0 \/ decision.dy # 0)
                    /\ CanEnqueueMove(sim.grid, newLoc)
    IN [sim EXCEPT
          !.deathQueue = killed,
          !.grid = IF moves THEN GridSet(GridSet(@, indiv.loc, 0), newLoc, i)
                   ELSE @,
          !.individuals[i].loc = IF moves THEN newLoc ELSE @,
          !.individuals[i].lastMoveDir =
              IF moves THEN coordToCompass(decision.dx, decision.dy) ELSE @]

executeActions(sim, i, decision) ==
    LET indiv == sim.individuals[i]
        killed == KillForward(sim, indiv, decision)
        newLoc == MoveTarget(indiv, decision)
        moves == (decision.dx # 0 \/ decision.dy # 0)
                    /\ CanEnqueueMove(sim.grid, newLoc)
    IN [sim EXCEPT
          !.deathQueue = killed,
          !.moveQueue = IF moves
                          THEN Append(@, [indivIndex |-> indiv.index,
                                          newLoc |-> newLoc])
                          ELSE @,
          !.individuals[i].lastMoveDir =
              IF moves THEN coordToCompass(decision.dx, decision.dy) ELSE @]

----
\* Simulator (simulator.ts)

MaxSimStep == 2
MaxGeneration == 1

NoStats == [none |-> TRUE]

\* the worker's `simulator` before any command made one
NoSimulator == [none |-> TRUE]

\* instrumentation: the stepOnce and endGeneration calls that have returned
\* so far in the method or handler in progress, and the method that threw
NoCalls == [stepOnce |-> 0, endGeneration |-> 0, threw |-> "none"]
BeginHandler(sim) ==
    IF sim = NoSimulator THEN sim ELSE [sim EXCEPT !.calls = NoCalls]

\* new Simulator(params)
NewSimulator(params) ==
    [ params |-> params,
      grid |-> NewGrid(params.sizeX, params.sizeY),
      individuals |-> <<>>,
      deathQueue |-> <<>>,
      moveQueue |-> <<>>,
      generation |-> 0,
      simStep |-> 0,
      paused |-> FALSE,
      killDeaths |-> 0,
      stats |-> NoStats,
      generationHistory |-> <<>>,
      calls |-> NoCalls ]

\* Simulator.init(): the set of states it can leave, one per PRNG outcome
SimulatorInit(sim) ==
    { [sim EXCEPT !.generation = 0, !.simStep = 0, !.killDeaths = 0,
                  !.stats = NoStats, !.generationHistory = <<>>,
                  !.grid = placed.grid,
                  !.individuals = placed.individuals,
                  !.deathQueue = <<>>, !.moveQueue = <<>>,
                  !.calls.threw = IF placed.threw THEN "init" ELSE @] :
        placed \in UNION { PeepsInit(sim.params,
                              createBarrier(GridClear(sim.grid),
                                            sim.params.barrierType, draw)) :
                            draw \in BarrierDraws(sim.grid, sim.params.barrierType) } }

RECURSIVE AgentLoop(_, _, _)
\* stepOnce lines 114-129, agents i..: dead agents are skipped
AgentLoop(sim, i, decisions) ==
    IF i > PopulationSize(sim) THEN sim
    ELSE IF ~sim.individuals[i].alive
           THEN AgentLoop(sim, i + 1, decisions)
           ELSE AgentLoop(
                   [executeActions(sim, i, decisions[i])
                       EXCEPT !.individuals[i].age = @ + 1],
                   i + 1, decisions)

\* an end of step that drains the queues without emptying them
EndOfStepKeepsQueues(sim) ==
    LET afterDeaths == DrainDeaths(sim.deathQueue, 1,
                          [grid |-> sim.grid, individuals |-> sim.individuals,
                           deaths |-> 0])
        afterMoves == DrainMoves(sim.moveQueue, 1, afterDeaths)
    IN [sim EXCEPT !.killDeaths = @ + afterDeaths.deaths,
                   !.grid = afterMoves.grid,
                   !.individuals = afterMoves.individuals,
                   !.simStep = @ + 1,
                   !.calls.stepOnce = @ + 1]

\* stepOnce lines 131-140 (the pheromone fade acts on the Signals object,
\* which is modelled on its own above)
EndOfStep(sim) ==
    LET afterDeaths == DrainDeaths(sim.deathQueue, 1,
                          [grid |-> sim.grid, individuals |-> sim.individuals,
                           deaths |-> 0])
        afterMoves == DrainMoves(sim.moveQueue, 1, afterDeaths)
    IN [sim EXCEPT !.killDeaths = @ + afterDeaths.deaths,
                   !.grid = afterMoves.grid,
                   !.individuals = afterMoves.individuals,
                   !.deathQueue = <<>>,
                   !.moveQueue = <<>>,
                   !.simStep = @ + 1,
                   !.calls.stepOnce = @ + 1]

\* one decision per living agent
StepDecisions(sim) == [LivingIndices(sim) -> Decisions(sim.params.killEnable)]

stepOnce(sim, decisions) == EndOfStep(AgentLoop(sim, 1, decisions))

\* computeGenerationStats (the genome figures are not carried)
computeGenerationStats(sim) ==
    [ generation |-> sim.generation,
      population |-> Cardinality(LivingIndices(sim)),
      killDeaths |-> sim.killDeaths ]

\* endGeneration: spawnNewGeneration returns params.population genomes.
\* When createIndiv throws in initFromGenomes, lines 196-199 are not reached:
\* generation and simStep keep their values.
endGeneration(sim) ==
    LET stats == computeGenerationStats(sim)
    IN { IF placed.threw
           THEN [sim EXCEPT !.stats = stats,
                            !.generationHistory = Append(@, stats),
                            !.grid = placed.grid,
                            !.individuals = placed.individuals,
                            !.deathQueue = <<>>, !.moveQueue = <<>>,
                            !.calls.threw = "endGeneration"]
           ELSE [sim EXCEPT !.stats = stats,
                            !.generationHistory = Append(@, stats),
                            !.grid = placed.grid,
                            !.individuals = placed.individuals,
                            !.deathQueue = <<>>, !.moveQueue = <<>>,
                            !.generation = @ + 1,
                            !.simStep = 0,
                            !.calls.endGeneration = @ + 1] :
           placed \in UNION { PeepsInitFromGenomes(sim.params.population, sim.params,
                                 createBarrier(GridClear(sim.grid),
                                               sim.params.barrierType, draw)) :
                               draw \in BarrierDraws(sim.grid, sim.params.barrierType) } }

RECURSIVE StepTimes(_, _)
\* `count` consecutive stepOnce calls: the set of states they can leave
StepTimes(sim, count) ==
    IF count <= 0 THEN {sim}
    ELSE UNION { StepTimes(stepOnce(sim, d), count - 1) : d \in StepDecisions(sim) }

\* runGeneration lines 144-153
runGeneration(sim) ==
    UNION { endGeneration(s) :
              s \in StepTimes([sim EXCEPT !.simStep = 0, !.killDeaths = 0],
                              sim.params.stepsPerGeneration) }

\* the pairs <<a, b>> of a step: b's death is queued, a is not killed, and
\* a's quantised movement points at the cell b occupies
MoveIntoKilled(sim, decisions) ==
    LET queued == AgentLoop(sim, 1, decisions).deathQueue
        dying == { queued[k].indivIndex : k \in 1 .. Len(queued) }
        living == LivingIndices(sim)
    IN { p \in living \X living :
           /\ p[1] # p[2]
           /\ p[2] \in dying
           /\ p[1] \notin dying
           /\ decisions[p[1]].dx # 0 \/ decisions[p[1]].dy # 0
           /\ MoveTarget(sim.individuals[p[1]], decisions[p[1]])
                = sim.individuals[p[2]].loc }

----
\* The Simulator driven through its public methods

NoTimer == 0

Params(sizeX, sizeY, population, stepsPerGeneration, maxGenerations, barrierType, killEnable) ==
    [ sizeX |-> sizeX, sizeY |-> sizeY, population |-> population,
      stepsPerGeneration |-> stepsPerGeneration,
      maxGenerations |-> maxGenerations,
      barrierType |-> barrierType, killEnable |-> killEnable,
      maxNumberNeurons |-> 1 ]

\* the same world with maxNumberNeurons = 0
NoNeurons(params) == [params EXCEPT !.maxNumberNeurons = 0]

\* the worlds explored by SpecSim: small grids, with and without barriers.
\* On grids this small the two bars cut the grid in two and FIVE_BLOCKS
\* covers it whole, so that no agent can be placed.
SimParamSets ==
    { Params(2, 2, 2, 2, 2, "NONE", FALSE),
      Params(3, 1, 2, 2, 2, "NONE", TRUE),
      Params(3, 2, 2, 2, 2, "VERTICAL_BAR_CONSTANT", FALSE),
      Params(2, 3, 2, 2, 2, "HORIZONTAL_BAR_CONSTANT", FALSE),
      Params(4, 1, 2, 2, 2, "VERTICAL_BAR_RANDOM", TRUE),
      Params(3, 2, 2, 2, 2, "FIVE_BLOCKS", FALSE) }

\* no command has arrived yet
NoArg == [none |-> TRUE]

\* no library function has been called
LibIdle ==
    /\ libOp = "idle"
    /\ libIn = NoArg
    /\ libOut = NoArg

WorkerIdle ==
    /\ lastArg = NoArg
    /\ running = FALSE
    /\ stepsPerFrame = 1
    /\ animFrameTimeout = NoTimer
    /\ timers = {}
    /\ posted = <<>>

SimInitState ==
    /\ \E params \in SimParamSets : simulator = NewSimulator(params)
    /\ lastOp = "new"
    /\ moveIntoKilled = {}
    /\ WorkerIdle

SimIdle ==
    /\ simulator = NoSimulator
    /\ lastOp = "idle"
    /\ moveIntoKilled = {}
    /\ WorkerIdle

SimCall(op, result, pairs) ==
    /\ simulator' = result
    /\ lastOp' = op
    /\ moveIntoKilled' = pairs
    /\ UNCHANGED <<workerVars, codecVars, netVars, stepVars, sigVars, libVars>>

\* simulator.init()
SimInit ==
    /\ simulator # NoSimulator
    /\ \E s \in SimulatorInit(BeginHandler(simulator)) : SimCall("init", s, {})

\* simulator.stepOnce()
SimStepOnce ==
    /\ simulator # NoSimulator
    /\ simulator.simStep < MaxSimStep
    /\ \E d \in StepDecisions(simulator) :
          SimCall("stepOnce", stepOnce(BeginHandler(simulator), d),
                  MoveIntoKilled(simulator, d))

\* simulator.endGeneration()
SimEndGeneration ==
    /\ simulator # NoSimulator
    /\ simulator.generation < MaxGeneration
    /\ \E s \in endGeneration(BeginHandler(simulator)) :
          SimCall("endGeneration", s, {})

----
\* Generation after generation: stepOnce and endGeneration called as the
\* body of simulationLoop calls them (lines 296-308)

MaxLoopGenerations == 2

\* a 3x1 world with killing, two agents and generations of one step
LoopParams == Params(3, 1, 2, 1, MaxLoopGenerations, "NONE", TRUE)

LoopInitState ==
    /\ simulator \in SimulatorInit(NewSimulator(LoopParams))
    /\ lastOp = "init"
    /\ moveIntoKilled = {}
    /\ WorkerIdle

\* line 307: the generation has steps left
LoopStepOnce ==
    /\ simulator.simStep < simulator.params.stepsPerGeneration
    /\ \E d \in StepDecisions(simulator) :
          SimCall("stepOnce", stepOnce(BeginHandler(simulator), d), {})

\* lines 296-298: the generation is over
LoopEndGeneration ==
    /\ simulator.simStep >= simulator.params.stepsPerGeneration
    /\ simulator.generation < simulator.params.maxGenerations
    /\ \E s \in endGeneration(BeginHandler(simulator)) :
          SimCall("endGeneration", s, {})

----
\* The worker (worker.ts): commands in, timer callbacks, messages out

MaxTimers == 2

NoParams == [none |-> TRUE]

\* DEFAULT_PARAMS, scaled down with the grid: an 8x1 world in which
\* FIVE_BLOCKS leaves the one cell x = 0 free (the code's values are 128x128,
\* population 1000, 300 steps, 500 generations)
DefaultParams == Params(8, 1, 1, 2, 2, "FIVE_BLOCKS", FALSE)

\* the params the init and reset commands carry
WorkerParamSets ==
    { Params(2, 1, 1, 2, 2, "NONE", TRUE),
      Params(2, 2, 1, 1, 1, "NONE", FALSE),
      Params(1, 1, 0, 1, 1, "NONE", FALSE),
      NoNeurons(Params(2, 1, 1, 1, 1, "NONE", FALSE)) }

StepsPerFrameArgs == {0, 1, 2}

\* postState: the message it appends to those posted so far, if any.  Of
\* the snapshot it keeps the counters and flags, and `queued`, the number of
\* records waiting in the two queues when the snapshot was taken.
postState(sim, isRunning, msgs) ==
    IF sim = NoSimulator THEN msgs
    ELSE Append(msgs, [ type |-> "state",
                        generation |-> sim.generation,
                        simStep |-> sim.simStep,
                        running |-> isRunning,
                        paused |-> sim.paused,
                        queued |-> Len(sim.deathQueue) + Len(sim.moveQueue) ])

\* a worker that posts no generationComplete message
PostGenerationCompleteDropped(msgs, stats) == msgs

\* ctx.postMessage({ type: 'generationComplete', stats }), lines 299 and 402
PostGenerationComplete(msgs, stats) ==
    Append(msgs, [ type |-> "generationComplete", stats |-> stats ])

\* a loop that steps whether or not the worker is running
LoopRunsAlways(sim, isRunning) == sim # NoSimulator

\* simulationLoop line 293
LoopRuns(sim, isRunning) == sim # NoSimulator /\ isRunning

RECURSIVE LoopIter(_, _, _, _)
\* simulationLoop lines 295-315, iterations i.. of the frame: the set of
\* outcomes, `scheduled` telling whether line 315 was reached.  An exception
\* thrown by endGeneration leaves the loop at once.
LoopIter(sim, i, spf, msgs) ==
    IF i >= spf
      THEN { [ sim |-> sim, running |-> TRUE,
               posted |-> postState(sim, TRUE, msgs), scheduled |-> TRUE ] }
    ELSE IF sim.simStep >= sim.params.stepsPerGeneration
      THEN UNION {
             LET msgs2 == PostGenerationComplete(msgs, s.stats)
             IN IF s.calls.threw # "none"
                  THEN { [ sim |-> s, running |-> TRUE, posted |-> msgs,
                           scheduled |-> FALSE ] }
                ELSE IF s.generation >= s.params.maxGenerations
                  THEN { [ sim |-> s, running |-> FALSE,
                           posted |-> postState(s, FALSE, msgs2),
                           scheduled |-> FALSE ] }
                  ELSE LoopIter(s, i + 1, spf, msgs2) :
             s \in endGeneration(sim) }
      ELSE UNION { LoopIter(stepOnce(sim, d), i + 1, spf, msgs) :
                     d \in StepDecisions(sim) }

simulationLoop(sim, isRunning, spf) ==
    IF ~LoopRuns(sim, isRunning)
      THEN { [ sim |-> sim, running |-> isRunning, posted |-> <<>>,
               scheduled |-> FALSE ] }
      ELSE LoopIter(sim, 0, spf, <<>>)

\* stopLoop: the pending timers it leaves (clearing a timer that has fired
\* already clears nothing); the handle becomes null
stopLoop(pending, handle) ==
    IF handle # NoTimer THEN pending \ {handle} ELSE pending

\* the id setTimeout returns: one that no pending timer has
NewTimer(pending) ==
    CHOOSE id \in 1 .. (Cardinality(pending) + 1) :
        /\ id \notin pending
        /\ \A other \in 1 .. (id - 1) : other \in pending

\* a worker that constructs the default simulator and does not initialise it
SimulatorOrDefaultNoInit(sim) ==
    IF sim = NoSimulator THEN { NewSimulator(DefaultParams) } ELSE { sim }

\* a simulator the worker makes when a command finds none
SimulatorOrDefault(sim) ==
    IF sim = NoSimulator
      THEN SimulatorInit(NewSimulator(DefaultParams))
      ELSE { sim }

WorkerInitState ==
    /\ simulator = NoSimulator
    /\ lastOp = "load"
    /\ moveIntoKilled = {}
    /\ WorkerIdle

\* the end of a handler that ran simulationLoop with outcome `out`
AfterLoop(op, out, pending, handle) ==
    /\ simulator' = out.sim
    /\ running' = out.running
    /\ posted' = out.posted
    /\ timers' = IF out.scheduled THEN pending \cup {NewTimer(pending)}
                                  ELSE pending
    /\ animFrameTimeout' = IF out.scheduled THEN NewTimer(pending) ELSE handle
    /\ lastOp' = op
    /\ UNCHANGED <<stepsPerFrame, moveIntoKilled, codecVars, netVars, stepVars, sigVars, libVars>>

\* the end of a handler that stopped the loop and left simulator `sim`
AfterStop(op, sim, msgs) ==
    /\ simulator' = sim
    /\ running' = FALSE
    /\ posted' = postState(sim, FALSE, msgs)
    /\ timers' = stopLoop(timers, animFrameTimeout)
    /\ animFrameTimeout' = NoTimer
    /\ lastOp' = op
    /\ UNCHANGED <<stepsPerFrame, moveIntoKilled, codecVars, netVars, stepVars, sigVars, libVars>>

Threw(sim) == sim.calls.threw # "none"

\* the catch clause of onmessage, lines 441-446
Caught(sim, msgs) ==
    IF Threw(sim) THEN Append(msgs, [ type |-> "error" ]) ELSE msgs

\* the end of a handler left by an exception after it had stopped the loop
AfterThrow(op, sim, isRunning) ==
    /\ simulator' = sim
    /\ running' = isRunning
    /\ posted' = Caught(sim, <<>>)
    /\ timers' = stopLoop(timers, animFrameTimeout)
    /\ animFrameTimeout' = NoTimer
    /\ lastOp' = op
    /\ UNCHANGED <<stepsPerFrame, moveIntoKilled, codecVars, netVars, stepVars, sigVars, libVars>>

\* the exploration stops at `cap` generations
BelowGenerationCap(cap) ==
    IF simulator = NoSimulator THEN TRUE
    ELSE /\ simulator.generation < cap
         /\ Len(simulator.generationHistory) < cap

\* 'init', lines 330-337
CmdInit ==
    \E params \in WorkerParamSets :
    \E sim \in SimulatorInit(NewSimulator(params)) :
        /\ lastArg' = [params |-> params]
        /\ IF Threw(sim) THEN AfterThrow("init", sim, running)
           ELSE AfterStop("init", sim, <<>>)

\* 'start', lines 339-348, explored up to `cap` generations
StartUpTo(cap) ==
    /\ Cardinality(timers) < MaxTimers
    /\ BelowGenerationCap(cap)
    /\ \E sim \in SimulatorOrDefault(BeginHandler(simulator)) :
       \E out \in simulationLoop([sim EXCEPT !.paused = FALSE], TRUE,
                                 stepsPerFrame) :
           /\ lastArg' = NoArg
           /\ AfterLoop("start", [out EXCEPT !.posted = Caught(out.sim, @)],
                        timers, animFrameTimeout)

CmdStart == StartUpTo(MaxGeneration)

\* a pause that stops the timer set last but leaves the running flag
CmdPauseLeavesRunning ==
    /\ simulator' = IF simulator = NoSimulator THEN simulator
                    ELSE [BeginHandler(simulator) EXCEPT !.paused = TRUE]
    /\ posted' = postState(simulator', running, <<>>)
    /\ timers' = stopLoop(timers, animFrameTimeout)
    /\ animFrameTimeout' = NoTimer
    /\ lastOp' = "pause"
    /\ lastArg' = NoArg
    /\ UNCHANGED <<running, stepsPerFrame, moveIntoKilled, codecVars, netVars, stepVars,
                   sigVars, libVars>>

\* 'pause', lines 350-356
CmdPause ==
    /\ lastArg' = NoArg
    /\ AfterStop("pause",
                 IF simulator = NoSimulator THEN simulator
                 ELSE [BeginHandler(simulator) EXCEPT !.paused = TRUE],
                 <<>>)

\* 'resume', lines 358-365
CmdResume ==
    /\ lastArg' = NoArg
    /\ Cardinality(timers) < MaxTimers
    /\ BelowGenerationCap(MaxGeneration)
    /\ IF simulator = NoSimulator
         THEN /\ lastOp' = "resume"
              /\ posted' = <<>>
              /\ UNCHANGED <<simulator, running, stepsPerFrame, timers,
                             animFrameTimeout, moveIntoKilled,
                             codecVars, netVars, stepVars, sigVars, libVars>>
         ELSE \E out \in simulationLoop(
                            [BeginHandler(simulator) EXCEPT !.paused = FALSE],
                            TRUE, stepsPerFrame) :
                  AfterLoop("resume",
                            [out EXCEPT !.posted = Caught(out.sim, @)],
                            timers, animFrameTimeout)

\* 'reset', lines 367-380
CmdReset ==
    \E params \in WorkerParamSets \cup {NoParams} :
    \E sim \in SimulatorInit(NewSimulator(
                  IF params # NoParams THEN params
                  ELSE IF simulator # NoSimulator THEN simulator.params
                  ELSE DefaultParams)) :
        /\ lastArg' = [params |-> params]
        /\ IF Threw(sim) THEN AfterThrow("reset", sim, FALSE)
           ELSE AfterStop("reset", sim, <<>>)

\* 'step', lines 382-392
CmdStep ==
    /\ IF simulator = NoSimulator THEN TRUE
       ELSE simulator.simStep < MaxSimStep
    /\ \E sim \in SimulatorOrDefault(BeginHandler(simulator)) :
       \E d \in StepDecisions(sim) :
           /\ lastArg' = NoArg
           /\ AfterStop("step", stepOnce(sim, d), <<>>)

\* 'stepGeneration', lines 394-405, explored up to `cap` generations
StepGenerationUpTo(cap) ==
    /\ BelowGenerationCap(cap)
    /\ \E sim \in SimulatorOrDefault(BeginHandler(simulator)) :
       \E s \in runGeneration(sim) :
           /\ lastArg' = NoArg
           /\ IF Threw(s) THEN AfterThrow("stepGeneration", s, FALSE)
              ELSE AfterStop("stepGeneration", s,
                             PostGenerationComplete(<<>>, s.stats))

CmdStepGeneration == StepGenerationUpTo(MaxGeneration)

\* 'setSpeed', lines 436-439
CmdSetSpeed ==
    \E n \in StepsPerFrameArgs :
        /\ stepsPerFrame' = Max(1, n)
        /\ simulator' = BeginHandler(simulator)
        /\ lastOp' = "setSpeed"
        /\ lastArg' = [stepsPerFrame |-> n]
        /\ posted' = <<>>
        /\ UNCHANGED <<running, timers, animFrameTimeout,
                       moveIntoKilled, codecVars, netVars, stepVars, sigVars, libVars>>

\* the partial params the updateParams command carries
PartialParams ==
    { [ sizeX |-> 3 ], [ stepsPerGeneration |-> 1 ], [ killEnable |-> TRUE ] }

\* Simulator.updateParams, simulator.ts lines 235-237: Object.assign
updateParams(sim, newParams) ==
    [sim EXCEPT !.params =
        [ key \in DOMAIN sim.params |->
            IF key \in DOMAIN newParams THEN newParams[key] ELSE sim.params[key] ]]

\* 'updateParams', lines 407-412
CmdUpdateParams ==
    \E newParams \in PartialParams :
        /\ simulator' = IF simulator = NoSimulator THEN simulator
                        ELSE updateParams(BeginHandler(simulator), newParams)
        /\ lastOp' = "updateParams"
        /\ lastArg' = [params |-> newParams]
        /\ posted' = <<>>
        /\ UNCHANGED <<running, stepsPerFrame, timers, animFrameTimeout,
                       moveIntoKilled, codecVars, netVars, stepVars, sigVars, libVars>>

\* Simulator.getIndivAt, simulator.ts lines 240-246: the living agent at loc,
\* or NoIndiv (null)
NoIndiv == [none |-> TRUE]
getIndivAt(sim, loc) ==
    IF ~GridIsInBounds(sim.grid, loc) THEN NoIndiv
    ELSE LET idx == GridAt(sim.grid, loc)
         IN IF idx = 0 \/ idx = 65535 THEN NoIndiv
            ELSE IF sim.individuals[idx].alive THEN sim.individuals[idx]
            ELSE NoIndiv

\* the coordinates the inspect command carries: cells inside the worlds and one
\* place outside every world
InspectArgs == { Coord(-1, 0), Coord(0, 0), Coord(1, 0), Coord(0, 1) }

\* the inspectResult event for agent `indiv`, or for none
InspectResult(indiv) ==
    IF indiv = NoIndiv
      THEN [ type |-> "inspectResult", data |-> NoIndiv, indivInfo |-> NoIndiv ]
      ELSE [ type |-> "inspectResult",
             data |-> [ network |-> indiv.index ],
             indivInfo |-> [ index |-> indiv.index, loc |-> indiv.loc,
                             age |-> indiv.age, alive |-> indiv.alive ] ]

\* 'inspect', lines 414-434
CmdInspect ==
    \E loc \in InspectArgs :
        /\ simulator' = BeginHandler(simulator)
        /\ posted' = IF simulator = NoSimulator THEN <<>>
                     ELSE << InspectResult(getIndivAt(simulator, loc)) >>
        /\ lastOp' = "inspect"
        /\ lastArg' = loc
        /\ UNCHANGED <<running, stepsPerFrame, timers, animFrameTimeout,
                       moveIntoKilled, codecVars, netVars, stepVars, sigVars, libVars>>

\* a pending timer fires: simulationLoop runs as its callback; explored up
\* to `cap` generations
TimerFireUpTo(cap) ==
    \E id \in timers :
        /\ running => BelowGenerationCap(cap)
        /\ \E out \in simulationLoop(BeginHandler(simulator), running,
                                     stepsPerFrame) :
               /\ lastArg' = NoArg
               /\ AfterLoop("timer", out, timers \ {id}, animFrameTimeout)

TimerFire == TimerFireUpTo(MaxGeneration)

\* The worker started again after its loop has run all its generations
MaxRestartGenerations == 2

RestartStart == StartUpTo(MaxRestartGenerations)
RestartStepGeneration == StepGenerationUpTo(MaxRestartGenerations)
RestartTimerFire == TimerFireUpTo(MaxRestartGenerations)

----
\* Peeps.init and Peeps.initFromGenomes called on their own

MaxPlaced == 3

\* the grids handed to the placement: those of the worlds of SimParamSets
\* after createBarrier
PlacementGrids ==
    UNION { { createBarrier(NewGrid(p.sizeX, p.sizeY), p.barrierType, draw) :
                draw \in BarrierDraws(NewGrid(p.sizeX, p.sizeY), p.barrierType) } :
            p \in SimParamSets }

LibCall(op, in, out) ==
    /\ libOp' = op
    /\ libIn' = in
    /\ libOut' = out
    /\ UNCHANGED <<codecVars, netVars, stepVars, sigVars, simVars>>

\* peeps.init(params, grid, rng)
LibPeepsInit ==
    /\ libOp = "idle"
    /\ \E grid \in PlacementGrids, population \in 0 .. MaxPlaced :
       \E placed \in PeepsInit([ population |-> population,
                                  maxNumberNeurons |-> 1 ], grid) :
           LibCall("Peeps.init",
                   [ grid |-> grid, population |-> population,
                     wanted |-> population ],
                   placed)

\* peeps.initFromGenomes(genomes, params, grid, rng)
LibPeepsInitFromGenomes ==
    /\ libOp = "idle"
    /\ \E grid \in PlacementGrids :
       \E population \in 0 .. MaxPlaced, numGenomes \in 0 .. MaxPlaced :
       \E placed \in PeepsInitFromGenomes(numGenomes,
                         [ population |-> population, maxNumberNeurons |-> 1 ],
                         grid) :
           LibCall("Peeps.initFromGenomes",
                   [ grid |-> grid, population |-> population,
                     wanted |-> Min(numGenomes, population) ],
                   placed)

----
\* Genomes from generation to generation (genome.ts, spawn.ts).  A gene is
\* one of two values; a point mutation turns one into the other.

MaxParentLength == 2
MaxSpawnGenerations == 2

GeneValues == {0, 1}

\* makeRandomGenome(rng, length)
makeRandomGenome(length) == [1 .. length -> GeneValues]

\* applyPointMutations: every gene is changed or kept, by rng.chance(rate)
applyPointMutations(genome) ==
    { [ i \in 1 .. Len(genome) |->
          IF i \in flipped THEN 1 - genome[i] ELSE genome[i] ] :
      flipped \in SUBSET (1 .. Len(genome)) }

\* genome.splice(idx, 1) and genome.splice(idx, 0, gene), idx from 0
SpliceOut(genome, idx) ==
    SubSeq(genome, 1, idx) \o SubSeq(genome, idx + 2, Len(genome))
SpliceIn(genome, idx, gene) ==
    SubSeq(genome, 1, idx) \o <<gene>> \o SubSeq(genome, idx + 1, Len(genome))

\* applyInsertionDeletion(genome, rng, rate, deletionRatio, maxLength)
applyInsertionDeletion(genome, maxLength) ==
    IF Len(genome) = 0 THEN {genome}
    ELSE {genome}
         \cup (IF Len(genome) > 1
                THEN { SpliceOut(genome, idx) : idx \in 0 .. (Len(genome) - 1) }
                ELSE {})
         \cup (IF Len(genome) < maxLength
                THEN { SpliceIn(genome, idx, gene) :
                         idx \in 0 .. Len(genome), gene \in GeneValues }
                ELSE {})

\* crossover(parent1, parent2, rng): genes 0..cross1 of parent1, then the
\* genes after cross2 of parent2
crossover(parent1, parent2) ==
    IF Len(parent1) = 0 THEN {parent2}
    ELSE IF Len(parent2) = 0 THEN {parent1}
    ELSE UNION {
           LET child == SubSeq(parent1, 1, cross1 + 1)
                          \o SubSeq(parent2, cross2 + 2, Len(parent2))
           IN IF Len(child) > 0 THEN {child} ELSE makeRandomGenome(1) :
           cross1 \in 0 .. (Len(parent1) - 1),
           cross2 \in 0 .. (Len(parent2) - 1) }

\* selectParent lines 186-209: a survivor drawn at random, or the one of two
\* drawn at random that is nearer the centre.  The two draws may name the
\* same survivor, so that either way every survivor can be returned.
selectParent(survivors, params) ==
    IF ~params.chooseParentsByFitness \/ Len(survivors) <= 1
      THEN { survivors[i] : i \in 1 .. Len(survivors) }
      ELSE UNION { { survivors[a], survivors[b] } :
                     a \in 1 .. Len(survivors), b \in 1 .. Len(survivors) }

\* spawnNewGeneration lines 146-173: the genomes one child can get;
\* parent2 may be parent1 again after the ten retries.
ChildGenomes(survivors, params) ==
    LET parents == selectParent(survivors, params)
        born == IF params.sexualReproduction /\ Len(survivors) >= 2
                  THEN UNION { crossover(parent1, parent2) :
                                 parent1 \in parents, parent2 \in parents }
                  ELSE parents
    IN UNION { applyInsertionDeletion(mutated, params.genomeMaxLength) :
                 mutated \in UNION { applyPointMutations(g) : g \in born } }

\* the genomes Peeps.init draws, lines 170-174
InitialGenomes(params) ==
    UNION { makeRandomGenome(length) :
              length \in params.genomeInitialLengthMin ..
                         params.genomeInitialLengthMax }

\* a spawn that makes one child for each survivor
spawnPerSurvivor(survivors, params) ==
    IF Len(survivors) = 0
      THEN [1 .. params.population -> InitialGenomes(params)]
      ELSE [1 .. Len(survivors) -> ChildGenomes(survivors, params)]

\* spawnNewGeneration(survivors, params, rng): one genome is pushed in each
\* of the params.population iterations of either loop
spawnNewGeneration(survivors, params) ==
    IF Len(survivors) = 0
      THEN [1 .. params.population -> InitialGenomes(params)]
      ELSE [1 .. params.population -> ChildGenomes(survivors, params)]

SpawnParams(initMin, initMax, maxLength, sexual) ==
    [ population |-> 2, genomeInitialLengthMin |-> initMin,
      genomeInitialLengthMax |-> initMax, genomeMaxLength |-> maxLength,
      sexualReproduction |-> sexual, chooseParentsByFitness |-> FALSE ]

\* the same params with another population and parents chosen by fitness
ByFitness(params, population) ==
    [params EXCEPT !.population = population, !.chooseParentsByFitness = TRUE]

\* params with 1 <= genomeInitialLengthMin <= genomeInitialLengthMax <=
\* genomeMaxLength
SpawnParamSets ==
    { SpawnParams(1, 1, 2, TRUE), SpawnParams(1, 2, 2, TRUE),
      SpawnParams(2, 2, 2, FALSE), SpawnParams(1, 2, 3, TRUE),
      ByFitness(SpawnParams(1, 1, 1, TRUE), 3),
      ByFitness(SpawnParams(1, 1, 2, FALSE), 1),
      ByFitness(SpawnParams(1, 1, 1, FALSE), 0) }

\* the survivors getSurvivors can return: any of the agents, in index order
SurvivorLists(genomes) ==
    { genomes, <<>> }
    \cup { <<genomes[i]>> : i \in 1 .. Len(genomes) }

\* Peeps.init: the first generation's genomes
SpawnFirst ==
    /\ libOp = "idle"
    /\ \E params \in SpawnParamSets :
       \E genomes \in [1 .. params.population -> InitialGenomes(params)] :
          /\ libOp' = "makeRandomGenome"
          /\ libIn' = params
          /\ libOut' = [ genomes |-> genomes, generation |-> 0,
                         survivors |-> 0 ]
    /\ UNCHANGED <<codecVars, netVars, stepVars, sigVars, simVars>>

\* endGeneration lines 158-191: the next generation's genomes
SpawnNext ==
    /\ libOp \in {"makeRandomGenome", "spawnNewGeneration"}
    /\ libOut.generation < MaxSpawnGenerations
    /\ \A i \in 1 .. Len(libOut.genomes) :
          Len(libOut.genomes[i]) <= MaxParentLength
    /\ \E survivors \in SurvivorLists(libOut.genomes) :
       \E genomes \in spawnNewGeneration(survivors, libIn) :
          /\ libOp' = "spawnNewGeneration"
          /\ libOut' = [ genomes |-> genomes,
                         generation |-> libOut.generation + 1,
                         survivors |-> Len(survivors) ]
    /\ UNCHANGED <<libIn, codecVars, netVars, stepVars, sigVars, simVars>>

----
\* Genome comparison (genome.ts)

MaxSimilarityLen == 2

\* a quotient of two integers, as the pair it is computed from
Quotient(num, den) == [num |-> num, den |-> den]

\* the same number: a / b = c / d
SameQuotient(p, q) == p.num * q.den = q.num * p.den

\* new Set(g.map(geneToUint32))
PackedSet(g) == { geneToUint32(g[i]) : i \in 1 .. Len(g) }

\* a comparison that counts every gene of g1 found in g2, repeated genes
\* as often as they occur
genomeSimilarityRepeats(g1, g2) ==
    IF Len(g1) = 0 /\ Len(g2) = 0 THEN Quotient(1, 1)
    ELSE IF Len(g1) = 0 \/ Len(g2) = 0 THEN Quotient(0, 1)
    ELSE LET set1 == PackedSet(g1)
             set2 == PackedSet(g2)
             intersection ==
                Cardinality({ i \in 1 .. Len(g1) : geneToUint32(g1[i]) \in set2 })
             union == Cardinality(set1) + Cardinality(set2) - intersection
         IN IF union = 0 THEN Quotient(1, 1) ELSE Quotient(intersection, union)

\* genomeSimilarity(g1, g2)
genomeSimilarity(g1, g2) ==
    IF Len(g1) = 0 /\ Len(g2) = 0 THEN Quotient(1, 1)
    ELSE IF Len(g1) = 0 \/ Len(g2) = 0 THEN Quotient(0, 1)
    ELSE LET set1 == PackedSet(g1)
             set2 == PackedSet(g2)
             intersection == Cardinality({ v \in set1 : v \in set2 })
             union == Cardinality(set1) + Cardinality(set2) - intersection
         IN IF union = 0 THEN Quotient(1, 1) ELSE Quotient(intersection, union)

\* the genes compared: two that differ in every field, one more that packs
\* to another word, and one whose sourceId and weight exceed their fields and
\* that packs to the same word as the first
SimilarityGenes ==
    { [ sourceType |-> 1, sourceId |-> 1, sinkType |-> 0, sinkId |-> 2,
        weightAsInt |-> -1 ],
      [ sourceType |-> 0, sourceId |-> 127, sinkType |-> 1, sinkId |-> 0,
        weightAsInt |-> 8192 ],
      [ sourceType |-> 1, sourceId |-> 1, sinkType |-> 0, sinkId |-> 2,
        weightAsInt |-> 1 ],
      [ sourceType |-> 1, sourceId |-> 129, sinkType |-> 0, sinkId |-> 2,
        weightAsInt |-> 65535 ] }

SimilarityGenomes ==
    UNION { [1 .. n -> SimilarityGenes] : n \in 0 .. MaxSimilarityLen }

\* genomeSimilarity called on a pair, both ways round, and on each genome
\* with itself
LibGenomeSimilarity ==
    /\ libOp = "idle"
    /\ \E g1 \in SimilarityGenomes, g2 \in SimilarityGenomes :
          LibCall("genomeSimilarity", [ g1 |-> g1, g2 |-> g2 ],
                  [ forward |-> genomeSimilarity(g1, g2),
                    backward |-> genomeSimilarity(g2, g1),
                    self1 |-> genomeSimilarity(g1, g1),
                    self2 |-> genomeSimilarity(g2, g2) ])

----
\* Survival (survival.ts).  The criteria compare distances computed in
\* floating point; they are given here as the same comparisons multiplied
\* out to integers (no compared pair is equal on the grids explored, so that
\* rounding cannot change a result).

MaxCriteria == 2

SurvivalCriteria ==
    { "CIRCLE", "RIGHT_EIGHTH", "LEFT_EIGHTH", "CENTER_WEIGHTED",
      "CORNER_WEIGHTED", "PAIRS", "CONTACT", "AGAINST_ANY_WALL",
      "TOUCH_ANY_WALL" }

Square(n) == n * n

\* (2 * distance from the centre of the grid) squared
CentreDist2(loc, params) ==
    Square(2 * loc.x - params.sizeX) + Square(2 * loc.y - params.sizeY)

\* surviveCircle: dx*dx + dy*dy <= radius*radius, radius = min(sizeX, sizeY)/4
surviveCircle(indiv, params) ==
    4 * CentreDist2(indiv.loc, params)
        <= Square(Min(params.sizeX, params.sizeY))

\* surviveCenterWeighted: 1 - dist/maxDist > 0.5
surviveCenterWeighted(indiv, params) ==
    4 * CentreDist2(indiv.loc, params)
        < Square(params.sizeX) + Square(params.sizeY)

\* surviveCornerWeighted: minDist < maxDist * 0.25
surviveCornerWeighted(indiv, params) ==
    \E corner \in { Coord(0, 0), Coord(params.sizeX - 1, 0),
                    Coord(0, params.sizeY - 1),
                    Coord(params.sizeX - 1, params.sizeY - 1) } :
        64 * (Square(indiv.loc.x - corner.x) + Square(indiv.loc.y - corner.y))
            < Square(params.sizeX) + Square(params.sizeY)

\* survivePairs: visitNeighborhood(loc, 1.5) reaches the eight cells around
survivePairs(indiv, grid) ==
    \E dx \in {-1, 0, 1}, dy \in {-1, 0, 1} :
        LET loc == Coord(indiv.loc.x + dx, indiv.loc.y + dy)
        IN /\ GridIsInBounds(grid, loc)
           /\ loc # indiv.loc
           /\ GridIsOccupiedAt(grid, loc)

surviveContact(indiv, grid) ==
    \E offset \in { Coord(-1, 0), Coord(1, 0), Coord(0, -1), Coord(0, 1) } :
        LET loc == coordAdd(indiv.loc, offset)
        IN GridIsInBounds(grid, loc) /\ GridIsOccupiedAt(grid, loc)

surviveAgainstAnyWall(indiv, params) ==
    \/ indiv.loc.x = 0
    \/ indiv.loc.x = params.sizeX - 1
    \/ indiv.loc.y = 0
    \/ indiv.loc.y = params.sizeY - 1

surviveTouchAnyWall(indiv, params) ==
    \/ indiv.loc.x <= 1
    \/ indiv.loc.x >= params.sizeX - 2
    \/ indiv.loc.y <= 1
    \/ indiv.loc.y >= params.sizeY - 2

\* survives(indiv, criteria, params, grid, peeps)
survives(indiv, criteria, params, grid) ==
    CASE criteria = "CIRCLE" -> surviveCircle(indiv, params)
      [] criteria = "RIGHT_EIGHTH" -> 8 * indiv.loc.x > params.sizeX * 7
      [] criteria = "LEFT_EIGHTH" -> 8 * indiv.loc.x < params.sizeX
      [] criteria = "CENTER_WEIGHTED" -> surviveCenterWeighted(indiv, params)
      [] criteria = "CORNER_WEIGHTED" -> surviveCornerWeighted(indiv, params)
      [] criteria = "PAIRS" -> survivePairs(indiv, grid)
      [] criteria = "CONTACT" -> surviveContact(indiv, grid)
      [] criteria = "AGAINST_ANY_WALL" -> surviveAgainstAnyWall(indiv, params)
      [] criteria = "TOUCH_ANY_WALL" -> surviveTouchAnyWall(indiv, params)
      [] OTHER -> TRUE

\* a survival test that asks for every criterion of the list
SurvivedAll(indiv, criteriaList, params, grid) ==
    \/ Len(criteriaList) = 0
    \/ \A k \in 1 .. Len(criteriaList) :
          survives(indiv, criteriaList[k], params, grid)

\* getSurvivors lines 69-70: criteriaList.length === 0 || criteriaList.some
Survived(indiv, criteriaList, params, grid) ==
    \/ Len(criteriaList) = 0
    \/ \E k \in 1 .. Len(criteriaList) :
          survives(indiv, criteriaList[k], params, grid)

\* peeps.getLiving()
getLiving(individuals) == SelectSeq(individuals, LAMBDA indiv : indiv.alive)

RECURSIVE SurvivorLoop(_, _, _, _, _, _)
\* getSurvivors lines 68-73, agents k.. of `living`
SurvivorLoop(living, k, survivors, criteriaList, params, grid) ==
    IF k > Len(living) THEN survivors
    ELSE SurvivorLoop(living, k + 1,
            IF Survived(living[k], criteriaList, params, grid)
              THEN Append(survivors, living[k]) ELSE survivors,
            criteriaList, params, grid)

getSurvivors(criteriaList, params, grid, individuals) ==
    SurvivorLoop(getLiving(individuals), 1, <<>>, criteriaList, params, grid)

\* the world getSurvivors is called in: a grid 16 wide
SurvivalParams == [ sizeX |-> 16, sizeY |-> 6 ]

SurvivalCells ==
    { Coord(1, 1), Coord(2, 2), Coord(8, 3), Coord(9, 3), Coord(15, 5) }

\* up to two agents on cells of SurvivalCells
SurvivalPlacements ==
    { <<>> } \cup { <<a>> : a \in SurvivalCells }
    \cup { cells \in SurvivalCells \X SurvivalCells : cells[1] # cells[2] }

RECURSIVE PlaceAt(_, _, _)
\* agents k.. created on the cells of a placement, as Peeps.init leaves them
PlaceAt(cells, k, st) ==
    IF k > Len(cells) THEN st
    ELSE PlaceAt(cells, k + 1,
            [st EXCEPT !.individuals = Append(@, createIndiv(k, cells[k])),
                       !.grid = GridSet(@, cells[k], k)])

\* the worlds: a placement, and then the deaths of `killed` drained
SurvivalWorld(cells, killed) ==
    LET placed == PlaceAt(cells, 1,
                          [ individuals |-> <<>>, deaths |-> 0,
                            grid |-> NewGrid(SurvivalParams.sizeX,
                                             SurvivalParams.sizeY) ])
        queue == [ k \in 1 .. Len(killed) |-> [ indivIndex |-> killed[k] ] ]
    IN DrainDeaths(queue, 1, placed)

KilledLists(n) ==
    { <<>> } \cup { <<i>> : i \in 1 .. n }
    \cup { killed \in (1 .. n) \X (1 .. n) : killed[1] < killed[2] }

RECURSIVE CriteriaLists(_)
\* the criteria lists of length up to n
CriteriaLists(n) ==
    IF n = 0 THEN { <<>> }
    ELSE CriteriaLists(n - 1)
         \cup { Append(list, c) : list \in { l \in CriteriaLists(n - 1) : Len(l) = n - 1 },
                                  c \in SurvivalCriteria }

SurvivalWorlds ==
    UNION { { SurvivalWorld(cells, killed) : killed \in KilledLists(Len(cells)) } :
            cells \in SurvivalPlacements }

SurvivalCriteriaLists == CriteriaLists(MaxCriteria)

\* getSurvivors(criteriaList, params, grid, peeps)
LibGetSurvivors ==
    /\ libOp = "idle"
    /\ \E world \in SurvivalWorlds :
       \E criteriaList \in SurvivalCriteriaLists :
           LibCall("getSurvivors",
                   [ criteriaList |-> criteriaList, params |-> SurvivalParams,
                     grid |-> world.grid, individuals |-> world.individuals ],
                   [ survivors |-> getSurvivors(criteriaList, SurvivalParams,
                                      world.grid, world.individuals) ])

----
\* stepOnce taken apart (simulator.ts lines 94-141): the agents one at a
\* time, then the records of the two queues one at a time

MaxSteps == 2

StepIdle ==
    /\ pc = "idle"
    /\ cursor = 0
    /\ acted = NoArg
    /\ stepStart = NoArg

\* what the network of one agent decides in one step: the movement after
\* quantisation, and whether the levels of KILL_FORWARD and EMIT_SIGNAL0
\* exceed the threshold.  Left out are the decisions that cannot act in the
\* world: a movement across the rows of a grid of one row (its target is
\* never in bounds) and an emit without a layer (emit returns at once).
AgentDecisions(params) ==
    [ dx : {-1, 0, 1},
      dy : IF params.sizeY > 1 THEN {-1, 0, 1} ELSE {0},
      kill : BOOLEAN,
      emit : IF params.signalLayers > 0 THEN BOOLEAN ELSE {FALSE} ]

\* params of a world with two agents; the radii are the defaults (2.0)
StepParams(sizeX, sizeY, killEnable, signalLayers) ==
    [ sizeX |-> sizeX, sizeY |-> sizeY, population |-> 2,
      stepsPerGeneration |-> MaxSteps, maxGenerations |-> 1,
      barrierType |-> "NONE", killEnable |-> killEnable,
      maxNumberNeurons |-> 1, signalLayers |-> signalLayers,
      signalSensorRadius2 |-> 4, populationSensorRadius2 |-> 4 ]

\* the states init leaves that are followed: on a 3x2 grid with killing and
\* no pheromone layer, agent 1 in the corner (2,0) and agent 2 in the corner
\* (0,0); on a 3x1 grid without killing and with one layer, every placement
StepStartStates ==
    { s \in SimulatorInit(NewSimulator(StepParams(3, 2, TRUE, 0))) :
        /\ Len(s.individuals) = 2
        /\ s.individuals[1].loc = Coord(2, 0)
        /\ s.individuals[2].loc = Coord(0, 0) }
    \cup { s \in SimulatorInit(NewSimulator(StepParams(3, 1, FALSE, 1))) :
             Len(s.individuals) = 2 }

\* the in-bounds cells visited by grid.visitNeighborhood and by
\* signals.getSignalDensity (radius2 is twice the radius)
Neighbourhood(sizeX, sizeY, center, radius2) ==
    LET iRadius == radius2 \div 2
    IN { c \in { Coord(x, y) : x \in 0 .. (sizeX - 1), y \in 0 .. (sizeY - 1) } :
           /\ c.x - center.x \in -iRadius .. iRadius
           /\ c.y - center.y \in -iRadius .. iRadius
           /\ 4 * (Square(c.x - center.x) + Square(c.y - center.y))
                <= radius2 * radius2 }

RECURSIVE SumLayer(_, _, _)
\* the sum of a layer's values over a set of cells
SumLayer(layer, sizeX, cells) ==
    IF cells = {} THEN 0
    ELSE LET c == CHOOSE cell \in cells : TRUE
         IN layer[Idx(sizeX, c.x, c.y)] + SumLayer(layer, sizeX, cells \ {c})

\* signals.getSignalDensity(layerNum, center, radius)
getSignalDensity(sig, layerNum, center, radius2) ==
    IF layerNum >= sig.numLayers THEN Quotient(0, 1)
    ELSE LET cells == Neighbourhood(sig.sizeX, sig.sizeY, center, radius2)
             count == Cardinality(cells)
         IN IF count > 0
              THEN Quotient(SumLayer(sig.layers[layerNum], sig.sizeX, cells),
                            count * 255)
              ELSE Quotient(0, 1)

\* getSensor, case POPULATION: the occupied part of the neighbourhood
SensorPopulation(sim, indiv) ==
    LET cells == Neighbourhood(sim.grid.sizeX, sim.grid.sizeY, indiv.loc,
                               sim.params.populationSensorRadius2)
        count == Cardinality({ c \in cells : GridIsOccupiedAt(sim.grid, c) })
    IN IF Cardinality(cells) > 0 THEN Quotient(count, Cardinality(cells))
       ELSE Quotient(0, 1)

\* getSensor, case SIGNAL0
SensorSignal0(sim, sig, indiv) ==
    getSignalDensity(sig, 0, indiv.loc, sim.params.signalSensorRadius2)

\* the sensor values an agent reads, of which these two are followed: one
\* that reads the grid and one that reads the pheromone layer
getSensors(sim, sig, indiv) ==
    [ population |-> SensorPopulation(sim, indiv),
      signal0 |-> SensorSignal0(sim, sig, indiv) ]

\* executeActions, case EMIT_SIGNAL0: ctx.signals.emit(0, indiv.loc, 1.5)
EmitSignal0(sig, indiv, decision) ==
    IF decision.emit THEN SignalsEmit(sig, 0, indiv.loc, 3) ELSE sig

\* a drain that takes the records from the end of the queue
NextRecordFromEnd(queue, k) == queue[Len(queue) + 1 - k]

\* `for (const record of queue)`: the k-th record processed
NextRecord(queue, k) == queue[k]

\* drainDeathQueue lines 240-245, for one record
DrainDeathRecord(record, st) ==
    LET idx == record.indivIndex
    IN IF idx \in 1 .. Len(st.individuals) /\ st.individuals[idx].alive
         THEN [st EXCEPT !.grid = GridSet(@, st.individuals[idx].loc, 0),
                         !.individuals[idx].alive = FALSE,
                         !.deaths = @ + 1]
         ELSE st

\* a move drain that also moves the dead
DrainMoveRecordOfAny(record, st) ==
    LET idx == record.indivIndex
        newLoc == record.newLoc
    IN IF idx \in 1 .. Len(st.individuals) /\ MoveAllowed(st.grid, newLoc)
         THEN [st EXCEPT
                 !.grid = GridSet(GridSet(@, st.individuals[idx].loc, 0),
                                  newLoc, idx),
                 !.individuals[idx].loc = newLoc]
         ELSE st

\* drainMoveQueue lines 257-264, for one record
DrainMoveRecord(record, st) ==
    LET idx == record.indivIndex
        newLoc == record.newLoc
    IN IF /\ idx \in 1 .. Len(st.individuals)
          /\ st.individuals[idx].alive
          /\ MoveAllowed(st.grid, newLoc)
         THEN [st EXCEPT
                 !.grid = GridSet(GridSet(@, st.individuals[idx].loc, 0),
                                  newLoc, idx),
                 !.individuals[idx].loc = newLoc]
         ELSE st

RECURSIVE FadeLayers(_, _)
\* stepOnce lines 136-138: fade of the layers from `layer` on
FadeLayers(sig, layer) ==
    IF layer >= sig.numLayers THEN sig
    ELSE FadeLayers(SignalsFade(sig, layer), layer + 1)

\* the world a step starts in
StepWorld(sim, sig) ==
    [ grid |-> sim.grid, individuals |-> sim.individuals, signals |-> sig,
      killDeaths |-> sim.killDeaths ]

StepInitState ==
    /\ simulator \in StepStartStates
    /\ signals = NewSignals(simulator.params.sizeX, simulator.params.sizeY,
                            simulator.params.signalLayers)
    /\ sigOps = 0
    /\ sigLastOp = "new"
    /\ lastOp = "init"
    /\ moveIntoKilled = {}
    /\ WorkerIdle
    /\ pc = "boundary"
    /\ cursor = 0
    /\ acted = NoArg
    /\ stepStart = NoArg

\* what no part of stepOnce touches
StepFrame ==
    UNCHANGED <<lastOp, moveIntoKilled, workerVars, sigOps, sigLastOp,
                codecVars, netVars, libVars>>

\* stepOnce is entered, lines 94-111
StepBegin ==
    /\ pc = "boundary"
    /\ simulator.simStep < MaxSteps
    /\ pc' = "agents"
    /\ cursor' = 1
    /\ acted' = NoArg
    /\ stepStart' = StepWorld(simulator, signals)
    /\ simulator' = BeginHandler(simulator)
    /\ UNCHANGED signals
    /\ StepFrame

\* a loop over the agents that does not skip the dead
StepAgentVisitsDead ==
    /\ pc = "agents"
    /\ cursor <= PopulationSize(simulator)
    /\ \E decision \in AgentDecisions(simulator.params) :
          /\ acted' = [ index |-> cursor, skipped |-> FALSE,
                        sensors |-> getSensors(simulator, signals,
                                       simulator.individuals[cursor]),
                        decision |-> decision ]
          /\ simulator' = [executeActions(simulator, cursor, decision)
                              EXCEPT !.individuals[cursor].age = @ + 1]
          /\ signals' = EmitSignal0(signals, simulator.individuals[cursor],
                                    decision)
    /\ cursor' = cursor + 1
    /\ UNCHANGED <<pc, stepStart>>
    /\ StepFrame

\* one turn of the loop over the agents, lines 114-129
StepAgent ==
    /\ pc = "agents"
    /\ cursor <= PopulationSize(simulator)
    /\ IF ~simulator.individuals[cursor].alive
         THEN /\ acted' = [ index |-> cursor, skipped |-> TRUE ]
              /\ UNCHANGED <<simulator, signals>>
         ELSE \E decision \in AgentDecisions(simulator.params) :
                /\ acted' = [ index |-> cursor, skipped |-> FALSE,
                              sensors |-> getSensors(simulator, signals,
                                             simulator.individuals[cursor]),
                              decision |-> decision ]
                /\ simulator' = [executeActions(simulator, cursor, decision)
                                    EXCEPT !.individuals[cursor].age = @ + 1]
                /\ signals' = EmitSignal0(signals, simulator.individuals[cursor],
                                          decision)
    /\ cursor' = cursor + 1
    /\ UNCHANGED <<pc, stepStart>>
    /\ StepFrame

\* the loop over the agents is left and drainDeathQueue entered, line 238
StepAgentsDone ==
    /\ pc = "agents"
    /\ cursor > PopulationSize(simulator)
    /\ pc' = "deaths"
    /\ cursor' = 1
    /\ acted' = [ deaths |-> 0 ]
    /\ UNCHANGED <<simulator, signals, stepStart>>
    /\ StepFrame

\* one record of the death queue, lines 239-246
StepDrainDeath ==
    /\ pc = "deaths"
    /\ cursor <= Len(simulator.deathQueue)
    /\ LET record == NextRecord(simulator.deathQueue, cursor)
           st == DrainDeathRecord(record,
                    [ grid |-> simulator.grid,
                      individuals |-> simulator.individuals,
                      deaths |-> acted.deaths ])
       IN /\ simulator' = [simulator EXCEPT !.grid = st.grid,
                                            !.individuals = st.individuals]
          /\ acted' = [ deaths |-> st.deaths ]
    /\ cursor' = cursor + 1
    /\ UNCHANGED <<pc, signals, stepStart>>
    /\ StepFrame

\* drainDeathQueue returns (lines 247-248, and line 132 of stepOnce) and
\* drainMoveQueue is entered
StepDeathsDrained ==
    /\ pc = "deaths"
    /\ cursor > Len(simulator.deathQueue)
    /\ simulator' = [simulator EXCEPT !.deathQueue = <<>>,
                                      !.killDeaths = @ + acted.deaths]
    /\ pc' = "moves"
    /\ cursor' = 1
    /\ acted' = NoArg
    /\ UNCHANGED <<signals, stepStart>>
    /\ StepFrame

\* one record of the move queue, lines 256-265
StepDrainMove ==
    /\ pc = "moves"
    /\ cursor <= Len(simulator.moveQueue)
    /\ LET record == NextRecord(simulator.moveQueue, cursor)
           st == DrainMoveRecord(record,
                    [ grid |-> simulator.grid,
                      individuals |-> simulator.individuals ])
       IN /\ simulator' = [simulator EXCEPT !.grid = st.grid,
                                            !.individuals = st.individuals]
          /\ acted' = [ record |-> record ]
    /\ cursor' = cursor + 1
    /\ UNCHANGED <<pc, signals, stepStart>>
    /\ StepFrame

\* drainMoveQueue returns (line 266), the layers fade and the step is
\* counted (stepOnce lines 135-140)
StepEnd ==
    /\ pc = "moves"
    /\ cursor > Len(simulator.moveQueue)
    /\ simulator' = [simulator EXCEPT !.moveQueue = <<>>,
                                      !.simStep = @ + 1,
                                      !.calls.stepOnce = @ + 1]
    /\ signals' = FadeLayers(signals, 0)
    /\ pc' = "boundary"
    /\ cursor' = 0
    /\ acted' = NoArg
    /\ stepStart' = NoArg
    /\ StepFrame

----
\* The settings an agent makes of itself (indiv.ts, actions.ts).  An action
\* level is a number of [-1, 1], carried as `level` parts of LevelScale.

LevelScale == 4

Levels == (- LevelScale) .. LevelScale

Abs(n) == IF n < 0 THEN - n ELSE n

\* createIndiv lines 45-47
createSettings(params) ==
    [ responsiveness |-> Quotient(1, 2),
      oscPeriod |-> 34,
      longProbeDist |-> params.longProbeDistance ]

\* a SET_OSCILLATOR_PERIOD without the floor of 2
SetOscillatorPeriodUnclamped(settings, level) ==
    [settings EXCEPT !.oscPeriod = 1 + ((Abs(level) * 100) \div LevelScale)]

\* SET_OSCILLATOR_PERIOD, lines 88-93
SetOscillatorPeriod(settings, level) ==
    LET newPeriod == 1 + ((Abs(level) * 100) \div LevelScale)
    IN [settings EXCEPT !.oscPeriod = Max(2, newPeriod)]

\* SET_LONGPROBE_DIST, lines 95-100
SetLongProbeDist(settings, level, params) ==
    LET newDist == 1 + ((Abs(level) * params.longProbeDistance) \div LevelScale)
    IN [settings EXCEPT !.longProbeDist = Max(1, newDist)]

\* SET_RESPONSIVENESS, lines 102-106: (level + 1) / 2.0
SetResponsiveness(settings, level) ==
    [settings EXCEPT !.responsiveness =
        Quotient(level + LevelScale, 2 * LevelScale)]

\* the three cases in the order of the loop over the actions
SetSettings(settings, levels, params) ==
    SetResponsiveness(
        SetLongProbeDist(
            SetOscillatorPeriod(settings, levels.oscPeriod),
            levels.longProbeDist, params),
        levels.responsiveness)

\* the configurations followed: longProbeDistance 1 and the default, 16
SettingsParams == { [ longProbeDistance |-> d ] : d \in {1, 16} }

\* executeActions on an agent: the first call finds the agent as createIndiv
\* made it, every later call as the call before left it
LibSetSettings ==
    /\ libOp \in {"idle", "executeActions"}
    /\ \E params \in IF libOp = "idle" THEN SettingsParams ELSE {libIn.params} :
       \E levels \in [ oscPeriod : Levels, longProbeDist : Levels,
                       responsiveness : Levels ] :
           LET before == IF libOp = "idle" THEN createSettings(params)
                         ELSE libOut
           IN LibCall("executeActions",
                      [ params |-> params, levels |-> levels ],
                      SetSettings(before, levels, params))

----
\* Specifications

InitCodec == CodecInit /\ NetIdle /\ SigIdle /\ SimIdle /\ LibIdle /\ StepIdle
NextCodec == CodecUnpack \/ CodecRepack \/ CodecPack \/ CodecReunpack
SpecCodec == InitCodec /\ [][NextCodec]_vars

InitNet == NetInit /\ CodecIdle /\ SigIdle /\ SimIdle /\ LibIdle /\ StepIdle
NextNet == NetBuild
SpecNet == InitNet /\ [][NextNet]_vars

InitSignals == SigInit /\ CodecIdle /\ NetIdle /\ SimIdle /\ LibIdle /\ StepIdle
NextSignals == SigSet \/ SigIncrement \/ SigEmit \/ SigFade \/ SigZeroFill
SpecSignals == InitSignals /\ [][NextSignals]_vars

InitFade == FadeInit /\ CodecIdle /\ NetIdle /\ SimIdle /\ LibIdle /\ StepIdle
NextFade == FadeEmitOnce \/ FadeAgain
SpecFade == InitFade /\ [][NextFade]_vars

InitSim == SimInitState /\ CodecIdle /\ NetIdle /\ SigIdle /\ LibIdle /\ StepIdle
NextSim == SimInit \/ SimStepOnce \/ SimEndGeneration
SpecSim == InitSim /\ [][NextSim]_vars

InitPlacement == LibIdle /\ CodecIdle /\ NetIdle /\ SigIdle /\ SimIdle /\ StepIdle
NextPlacement == LibPeepsInit \/ LibPeepsInitFromGenomes
SpecPlacement == InitPlacement /\ [][NextPlacement]_vars

InitSpawn == LibIdle /\ CodecIdle /\ NetIdle /\ SigIdle /\ SimIdle /\ StepIdle
NextSpawn == SpawnFirst \/ SpawnNext
SpecSpawn == InitSpawn /\ [][NextSpawn]_vars

InitStep == StepInitState /\ CodecIdle /\ NetIdle /\ LibIdle
NextStep ==
    \/ StepBegin \/ StepAgent \/ StepAgentsDone \/ StepDrainDeath
    \/ StepDeathsDrained \/ StepDrainMove \/ StepEnd
SpecStep == InitStep /\ [][NextStep]_vars

InitSimilarity == LibIdle /\ CodecIdle /\ NetIdle /\ SigIdle /\ SimIdle /\ StepIdle
NextSimilarity == LibGenomeSimilarity
SpecSimilarity == InitSimilarity /\ [][NextSimilarity]_vars

InitSettings == LibIdle /\ CodecIdle /\ NetIdle /\ SigIdle /\ SimIdle /\ StepIdle
NextSettings == LibSetSettings
SpecSettings == InitSettings /\ [][NextSettings]_vars

InitSurvival == LibIdle /\ CodecIdle /\ NetIdle /\ SigIdle /\ SimIdle /\ StepIdle
NextSurvival == LibGetSurvivors
SpecSurvival == InitSurvival /\ [][NextSurvival]_vars

InitReconfigure == WorkerInitState /\ CodecIdle /\ NetIdle /\ SigIdle /\ LibIdle /\ StepIdle
NextReconfigure == CmdInit \/ CmdReset \/ CmdStep \/ CmdUpdateParams
SpecReconfigure == InitReconfigure /\ [][NextReconfigure]_vars

InitLoop == LoopInitState /\ CodecIdle /\ NetIdle /\ SigIdle /\ LibIdle /\ StepIdle
NextLoop == LoopStepOnce \/ LoopEndGeneration
SpecLoop == InitLoop /\ [][NextLoop]_vars

InitRestart == WorkerInitState /\ CodecIdle /\ NetIdle /\ SigIdle /\ LibIdle /\ StepIdle
NextRestart == CmdInit \/ RestartStart \/ RestartStepGeneration \/ RestartTimerFire
SpecRestart == InitRestart /\ [][NextRestart]_vars

InitWorker == WorkerInitState /\ CodecIdle /\ NetIdle /\ SigIdle /\ LibIdle /\ StepIdle
NextWorker ==
    \/ CmdInit \/ CmdStart \/ CmdPause \/ CmdResume \/ CmdReset
    \/ CmdStep \/ CmdStepGeneration \/ CmdSetSpeed \/ CmdInspect
    \/ TimerFire
SpecWorker == InitWorker /\ [][NextWorker]_vars

----
\* Properties

C2_MoveIntoKilledSucceeds ==
    \A p \in moveIntoKilled :
        simulator.individuals[p[1]].loc = simulator.individuals[p[2]].loc

\* C2 amended: in such a step A's move is not queued, because B's cell is
\* occupied when A acts: A ends the step in the cell it started in, B is
\* dead and B's former cell is empty.
C2_MoveIntoKilledNotQueued ==
    [][ lastOp' = "stepOnce" =>
          \A p \in moveIntoKilled' :
              /\ simulator'.individuals[p[1]].alive
              /\ simulator'.individuals[p[1]].loc = simulator.individuals[p[1]].loc
              /\ ~simulator'.individuals[p[2]].alive
              /\ GridAt(simulator'.grid, simulator.individuals[p[2]].loc) = EMPTY
      ]_vars

\* a step in which A had moved towards B before, killed B forward and pushed
\* on towards B's cell
C2_Witness ==
    /\ lastOp = "stepOnce"
    /\ \E p \in moveIntoKilled :
          /\ simulator.individuals[p[1]].lastMoveDir # CENTER
          /\ coordAdd(simulator.individuals[p[1]].loc,
                      DirAsCoord(simulator.individuals[p[1]].lastMoveDir))
                = simulator.individuals[p[2]].loc

\* no agent, living or dead, is located on a cell holding the barrier value
NoAgentOnBarrier ==
    simulator # NoSimulator =>
        \A i \in 1 .. Len(simulator.individuals) :
            GridAt(simulator.grid, simulator.individuals[i].loc) # BARRIER

\* a stepOnce leaves every barrier cell a barrier cell
StepKeepsBarriers ==
    lastOp' = "stepOnce" =>
        \A c \in GridCells(simulator.grid) :
            GridAt(simulator.grid, c) = BARRIER =>
                GridAt(simulator'.grid, c) = BARRIER

\* C3: every cell that holds 0xFFFF when a stepOnce starts still holds 0xFFFF
\* when it ends, and no agent is ever located on a barrier cell.
C3_BarriersKept == []NoAgentOnBarrier /\ [][StepKeepsBarriers]_vars

\* a step in a world with a barrier has drained a death and a move
C3_Witness ==
    /\ simulator # NoSimulator
    /\ lastOp = "stepOnce"
    /\ \E c \in GridCells(simulator.grid) : GridAt(simulator.grid, c) = BARRIER
    /\ \E i, j \in 1 .. Len(simulator.individuals) :
          /\ ~simulator.individuals[i].alive
          /\ simulator.individuals[j].alive
          /\ simulator.individuals[j].lastMoveDir # CENTER
          /\ simulator.individuals[j].age = 1

\* C9 as stated: runGeneration, invoked when simStep = s with
\* 0 <= s <= stepsPerGeneration, makes stepsPerGeneration - s calls of
\* stepOnce and then exactly one call of endGeneration.
C9_RunGenerationCompletes ==
    [][ (/\ lastOp' = "stepGeneration"
         /\ simulator # NoSimulator
         /\ simulator.simStep <= simulator.params.stepsPerGeneration
         /\ simulator'.calls.threw = "none")
        => /\ simulator'.calls.stepOnce
                = simulator.params.stepsPerGeneration - simulator.simStep
           /\ simulator'.calls.endGeneration = 1 ]_vars

\* the loop is stopped and, until a start or a resume, stays stopped: a
\* timer that fires meanwhile steps nothing
StoppedStaysStopped ==
    /\ (~running /\ running') => lastOp' \in {"start", "resume"}
    /\ (~running /\ lastOp' = "timer") =>
          /\ simulator'.calls = NoCalls
          /\ simulator'.simStep = simulator.simStep
          /\ simulator'.generation = simulator.generation
          /\ simulator'.individuals = simulator.individuals
          /\ timers' \subseteq timers

\* C10: a step command causes exactly one stepOnce: simStep increases by
\* exactly 1, generation is unchanged, and the free-running loop is stopped
\* so that no timer-driven step follows until a later start or resume.
C10_StepCommand ==
    [][ /\ lastOp' = "step" =>
            /\ simulator'.calls = [NoCalls EXCEPT !.stepOnce = 1]
            /\ simulator'.simStep
                  = (IF simulator = NoSimulator THEN 0 ELSE simulator.simStep) + 1
            /\ simulator'.generation
                  = (IF simulator = NoSimulator THEN 0 ELSE simulator.generation)
            /\ ~running'
            /\ animFrameTimeout' = NoTimer
        /\ StoppedStaysStopped ]_vars

\* a step command has interrupted a running loop, and a timer set before
\* it is still pending
C10_Witness ==
    /\ lastOp = "step"
    /\ simulator.simStep >= 2
    /\ timers # {}
    /\ ~running

\* C11: once a pause command has been processed, no stepOnce and no
\* endGeneration is executed until a start, resume, step or stepGeneration
\* command is processed, whatever timer callbacks earlier commands left
\* pending: pause leaves the worker not running, and while it is not running
\* every other command and every timer callback makes no such call and leaves
\* it not running.
C11_PauseHolds ==
    [][ /\ lastOp' = "pause" => ~running'
        /\ (/\ ~running
            /\ lastOp' \notin {"start", "resume", "step", "stepGeneration"})
           => /\ ~running'
              /\ IF simulator' = NoSimulator THEN TRUE
                 ELSE /\ simulator'.calls.stepOnce = 0
                      /\ simulator'.calls.endGeneration = 0
                      /\ simulator'.calls.threw # "endGeneration" ]_vars

\* a timer left pending by a repeated start has fired after the pause
C11_Witness ==
    /\ lastOp = "timer"
    /\ ~running
    /\ simulator # NoSimulator
    /\ simulator.paused
    /\ simulator.simStep >= 1
    /\ simulator.calls = NoCalls

\* C12: whenever a command is handled or a state snapshot is posted the
\* simulator is at a step boundary: the move queue and the death queue are
\* empty, and simStep counts the completed steps (within a generation it
\* has grown by the number of stepOnce calls the handler made).
C12_StepBoundary ==
    [][ IF simulator' = NoSimulator THEN posted' = <<>>
        ELSE /\ simulator'.deathQueue = <<>>
             /\ simulator'.moveQueue = <<>>
             /\ \A k \in 1 .. Len(posted') :
                   posted'[k].type = "state" => posted'[k].queued = 0
             /\ (/\ simulator # NoSimulator
                 /\ lastOp' \in {"start", "resume", "step", "timer"}
                 /\ simulator'.calls.endGeneration = 0)
                => simulator'.simStep
                      = simulator.simStep + simulator'.calls.stepOnce ]_vars

\* a timer callback has stepped, drained a move and posted its snapshot
C12_Witness ==
    /\ lastOp = "timer"
    /\ simulator.calls.stepOnce >= 1
    /\ \E k \in 1 .. Len(posted) :
          posted[k].type = "state" /\ posted[k].simStep = simulator.simStep
    /\ \E i \in LivingIndices(simulator) :
          simulator.individuals[i].lastMoveDir # CENTER

IsGenerationComplete(msg) == msg.type = "generationComplete"

IsInspectResult(msg) == msg.type = "inspectResult"

\* C14: every inspect{x,y} command, in any worker state (also before any
\* init), produces exactly one inspectResult event, and that event carries a
\* null network and a null info when no living agent is at (x,y) (out of
\* bounds and barrier cells included).
C14_InspectAnswers ==
    [][ lastOp' = "inspect" =>
          /\ Len(SelectSeq(posted', IsInspectResult)) = 1
          /\ (IF simulator = NoSimulator THEN TRUE
              ELSE getIndivAt(simulator, lastArg') = NoIndiv)
             => \E k \in 1 .. Len(posted') :
                   /\ posted'[k].type = "inspectResult"
                   /\ posted'[k].data = NoIndiv
                   /\ posted'[k].indivInfo = NoIndiv
      ]_vars

IsError(msg) == msg.type = "error"

\* params the specification calls invalid: a non-positive size or count
InvalidParams(params) ==
    \/ params.sizeX <= 0
    \/ params.sizeY <= 0
    \/ params.population <= 0
    \/ params.stepsPerGeneration <= 0

\* C16: an init or reset command whose params are invalid (a non-positive
\* sizeX, sizeY, population or stepsPerGeneration) is rejected: an error
\* event is emitted and the simulator instance, the running flag and the
\* scheduled loop are left as they were.
C16_InvalidParamsRejected ==
    [][ (IF lastOp' \in {"init", "reset"}
           THEN IF lastArg'.params = NoParams THEN FALSE
                ELSE InvalidParams(lastArg'.params)
           ELSE FALSE)
        => /\ SelectSeq(posted', IsError) # <<>>
           /\ simulator' = BeginHandler(simulator)
           /\ running' = running
           /\ timers' = timers
           /\ animFrameTimeout' = animFrameTimeout
      ]_vars

\* C15: an exception raised while a step or a generation is executed,
\* inside a command handler or inside a timer-driven simulationLoop
\* callback, results in an error event being emitted.
C15_FailureReported ==
    [][ (IF simulator' = NoSimulator THEN FALSE ELSE Threw(simulator'))
        => SelectSeq(posted', IsError) # <<>> ]_vars

\* the state the worker is in after init{DEFAULT_PARAMS} left simulator s0:
\* not running, no timer set, and a command then applied has the outcome
\* given (the simulator, the running flag, whether a timer is set)
AfterDefaultInit(sim, isRunning, scheduled) ==
    /\ simulator' = sim
    /\ running' = isRunning
    /\ timers' = (IF scheduled THEN {NewTimer({})} ELSE {})
    /\ animFrameTimeout' = (IF scheduled THEN NewTimer({}) ELSE NoTimer)

\* C17: a step, start or stepGeneration command received when no simulator
\* exists constructs a simulator with DEFAULT_PARAMS, initialises it and
\* then carries out the command: the state it leaves is one that the same
\* command leaves when init{DEFAULT_PARAMS} was processed just before it.
C17_ImplicitDefaultInit ==
    [][ (simulator = NoSimulator
         /\ lastOp' \in {"step", "start", "stepGeneration"})
        => \E s0 \in SimulatorInit(NewSimulator(DefaultParams)) :
             CASE lastOp' = "step" ->
                    \E d \in StepDecisions(s0) :
                       AfterDefaultInit(stepOnce(s0, d), FALSE, FALSE)
               [] lastOp' = "start" ->
                    \E out \in simulationLoop([s0 EXCEPT !.paused = FALSE],
                                              TRUE, stepsPerFrame) :
                       AfterDefaultInit(out.sim, out.running, out.scheduled)
               [] lastOp' = "stepGeneration" ->
                    \E s \in runGeneration(s0) :
                       AfterDefaultInit(s, FALSE, FALSE)
      ]_vars

\* a step command was the first to make a simulator: the default world with
\* its barriers and its agent, one step into generation 0
C17_Witness ==
    /\ lastOp = "step"
    /\ simulator # NoSimulator
    /\ simulator.params = DefaultParams
    /\ simulator.generation = 0
    /\ simulator.simStep = 1
    /\ simulator.calls.stepOnce = 1
    /\ Len(simulator.individuals) = 1
    /\ \E c \in GridCells(simulator.grid) : GridIsBarrierAt(simulator.grid, c)

\* C18: in Peeps.init and Peeps.initFromGenomes an agent is left unplaced
\* only when 10,000 randomly chosen cells were all non-empty; placement then
\* stops, and the agents already placed keep contiguous indices 1..k with
\* k < population, each on a distinct cell that was empty when chosen.
C18_UnplacedOnlyWhenExhausted ==
    libOp \in {"Peeps.init", "Peeps.initFromGenomes"} =>
        LET k == Len(libOut.individuals)
        IN /\ k <= libIn.wanted
           /\ k < libIn.wanted =>
                 /\ libOut.stopped # NoDraw
                 /\ libOut.stopped.misses = MaxAttempts
                 /\ ~GridIsEmptyAt(libOut.grid, libOut.stopped.loc)
           /\ \A i \in 1 .. k :
                 /\ libOut.individuals[i].index = i
                 /\ GridIsEmptyAt(libIn.grid, libOut.individuals[i].loc)
                 /\ GridAt(libOut.grid, libOut.individuals[i].loc) = i
           /\ \A i, j \in 1 .. k :
                 i # j => libOut.individuals[i].loc # libOut.individuals[j].loc

\* C19: with 1 <= genomeInitialLengthMin <= genomeInitialLengthMax <=
\* genomeMaxLength, every agent's genome in every generation (the initial
\* random genomes and those spawnNewGeneration makes by crossover, point
\* mutation and insertion/deletion) has a length in [1, genomeMaxLength].
C19_GenomeLengthBounded ==
    libOp \in {"makeRandomGenome", "spawnNewGeneration"} =>
        \A i \in 1 .. Len(libOut.genomes) :
            /\ 1 <= Len(libOut.genomes[i])
            /\ Len(libOut.genomes[i]) <= libIn.genomeMaxLength

\* the agents of the call's input that are among its survivors
ReturnedIndices == { libOut.survivors[k].index : k \in 1 .. Len(libOut.survivors) }

\* C20: getSurvivors returns exactly the living agents that satisfy at least
\* one criterion of the list, and all living agents when the list is empty;
\* an agent whose death was drained is never returned.  For LEFT_EIGHTH with
\* sizeX = 16 the survivors are exactly the living agents with x < 2.
C20_SurvivorsExact ==
    libOp = "getSurvivors" =>
        LET agents == libIn.individuals
            list == libIn.criteriaList
            living == { i \in 1 .. Len(agents) : agents[i].alive }
        IN /\ \A k \in 1 .. Len(libOut.survivors) :
                 libOut.survivors[k] = agents[libOut.survivors[k].index]
           /\ \A j, k \in 1 .. Len(libOut.survivors) :
                 j < k => libOut.survivors[j].index < libOut.survivors[k].index
           /\ ReturnedIndices \subseteq living
           /\ \A i \in living :
                 i \in ReturnedIndices
                   <=> \/ list = <<>>
                       \/ \E k \in 1 .. Len(list) :
                             survives(agents[i], list[k], libIn.params,
                                      libIn.grid)
           /\ (list = << "LEFT_EIGHTH" >> /\ libIn.params.sizeX = 16) =>
                 ReturnedIndices = { i \in living : agents[i].loc.x < 2 }

\* LEFT_EIGHTH on the 16-wide grid with two living agents, at x = 1 and at
\* x = 2: the first is returned and the second is not
C20_Witness ==
    /\ libOp = "getSurvivors"
    /\ libIn.criteriaList = << "LEFT_EIGHTH" >>
    /\ Len(libIn.individuals) = 2
    /\ libIn.individuals[1].alive /\ libIn.individuals[1].loc = Coord(2, 2)
    /\ libIn.individuals[2].alive /\ libIn.individuals[2].loc = Coord(1, 1)
    /\ Len(libOut.survivors) = 1
    /\ libOut.survivors[1].index = 2

\* C5: the network returned by buildNeuralNet has no connection whose source
\* is an internal neuron with driven = false, and driven[n] is true exactly
\* when some remaining connection has internal neuron n as its sink.
C5_PruningFixedPoint ==
    nnet # NoNet =>
        /\ \A i \in 1 .. Len(nnet.connections) :
              nnet.connections[i].sourceType = NEURON =>
                  nnet.neurons[nnet.connections[i].sourceId].driven
        /\ \A n \in DOMAIN nnet.neurons :
              nnet.neurons[n].driven <=>
                  \E i \in 1 .. Len(nnet.connections) :
                      /\ nnet.connections[i].sinkType = NEURON
                      /\ nnet.connections[i].sinkId = n

\* a build in which the second pruning pass removed a connection the first
\* pass had left
C5_Witness ==
    /\ nnet # NoNet
    /\ LET conns == [i \in 1 .. Len(netGenome) |->
                        MakeConnection(netGenome[i], netNeurons)]
           once == PrunePass(conns, MarkDriven(conns, netNeurons))
       IN /\ Len(once) < Len(conns)
          /\ Len(nnet.connections) < Len(once)
          /\ Len(nnet.connections) > 0

\* three genes, neuron to neuron, whose renumbered endpoints form a cycle
\* through three distinct neurons
IsNeuronCycle(genome, numInternalNeurons) ==
    /\ Len(genome) = 3
    /\ numInternalNeurons >= 3
    /\ \A i \in 1 .. 3 :
          /\ genome[i].sourceType = NEURON
          /\ genome[i].sinkType = NEURON
          /\ genome[i].sourceId = i - 1
          /\ genome[i].sinkId = (i % 3)

C7_CodecRoundTrip ==
    /\ cPhase = "repacked" => cWord = cWord0
    /\ cPhase = "reunpacked" => cGene = cGene0

\* the most negative weight has made the round trip
C7_Witness ==
    /\ cPhase = "reunpacked"
    /\ cGene0.weightAsInt = -32768
    /\ cWord.lo = 32768
    /\ cGene.weightAsInt = -32768

\* C8: every cell of every signal layer is in 0..255; an emit never lowers a
\* cell (it saturates at 255) and a fade never raises one and stops at 0.
C8_SignalBounds ==
    [][ signals # NoSignals =>
          /\ \A l \in DOMAIN signals'.layers : \A i \in DOMAIN signals'.layers[l] :
                signals'.layers[l][i] \in 0 .. 255
          /\ sigLastOp' = "emit" =>
                \A l \in DOMAIN signals.layers : \A i \in DOMAIN signals.layers[l] :
                    signals'.layers[l][i] >= signals.layers[l][i]
          /\ sigLastOp' = "fade" =>
                \A l \in DOMAIN signals.layers : \A i \in DOMAIN signals.layers[l] :
                    /\ signals'.layers[l][i] <= signals.layers[l][i]
                    /\ signals.layers[l][i] = 0 => signals'.layers[l][i] = 0 ]_vars

\* an emit has driven a cell that already held a value to 255
C8_Witness ==
    /\ sigLastOp = "emit"
    /\ sigOps >= 2
    /\ \E l \in DOMAIN signals.layers : \E i, j \in DOMAIN signals.layers[l] :
          signals.layers[l][i] = 255 /\ signals.layers[l][j] \in 200 .. 254

----
\* reset

\* C21 as stated: after a reset{params} command the simulator is in a state
\* that init{params} produces (generation 0, simStep 0, empty history, the
\* grid and the agents of a fresh placement), the running flag is false and
\* no timer of the loop is left pending.
C21_ResetLikeInit ==
    [][ (lastOp' = "reset" /\ lastArg'.params # NoParams)
        => /\ simulator' \in SimulatorInit(NewSimulator(lastArg'.params))
           /\ ~running'
           /\ animFrameTimeout' = NoTimer
           /\ timers' = {} ]_vars

\* the part of C21 about the simulator, the flag and the handle alone
ResetStateLikeInit ==
    [][ (lastOp' = "reset" /\ lastArg'.params # NoParams)
        => /\ simulator' \in SimulatorInit(NewSimulator(lastArg'.params))
           /\ ~running'
           /\ animFrameTimeout' = NoTimer ]_vars

----
\* spawnNewGeneration

\* C22: spawnNewGeneration returns exactly params.population genomes for
\* every survivor list (empty, a single survivor, or many) and every
\* combination of sexualReproduction and chooseParentsByFitness.
C22_PopulationGenomes ==
    libOp = "spawnNewGeneration" => Len(libOut.genomes) = libIn.population

\* three children were made from a single survivor, parents chosen by fitness
C22_Witness ==
    /\ libOp = "spawnNewGeneration"
    /\ libOut.survivors = 1
    /\ libIn.chooseParentsByFitness
    /\ libIn.population = 3
    /\ Len(libOut.genomes) = 3

----
\* fading

\* C23: after one emit on an all-zero signal layer followed by repeated fade
\* calls with no further emits, every cell's value is non-increasing from
\* one fade to the next and every cell is 0 after at most 255 fades.
C23_FadesToZero ==
    [][ sigLastOp' = "fadeAgain"
        => /\ \A i \in DOMAIN signals.layers[0] :
                signals'.layers[0][i] <= signals.layers[0][i]
           /\ sigOps' >= 255 =>
                \A i \in DOMAIN signals'.layers[0] : signals'.layers[0][i] = 0
      ]_vars

\* 254 fades after an emit whose centre got the full strength, one cell
\* still holds 1
C23_Witness ==
    /\ sigLastOp = "fadeAgain"
    /\ sigOps = 254
    /\ \E i \in DOMAIN signals.layers[0] : signals.layers[0][i] = 1

----
\* genomeSimilarity

\* C24: for all genomes g1, g2 (compared as sets of packed 32-bit gene
\* values) genomeSimilarity(g1, g2) = genomeSimilarity(g2, g1), the value
\* lies in [0, 1], and genomeSimilarity(g, g) = 1.0 for every non-empty g.
C24_SimilaritySymmetric ==
    libOp = "genomeSimilarity" =>
        /\ SameQuotient(libOut.forward, libOut.backward)
        /\ libOut.forward.den > 0
        /\ 0 <= libOut.forward.num
        /\ libOut.forward.num <= libOut.forward.den
        /\ Len(libIn.g1) > 0 => SameQuotient(libOut.self1, Quotient(1, 1))
        /\ Len(libIn.g2) > 0 => SameQuotient(libOut.self2, Quotient(1, 1))

\* g1 repeats one packed word in two different genes and shares it with
\* g2, which has a second word: similarity 1/2
C24_Witness ==
    /\ libOp = "genomeSimilarity"
    /\ Len(libIn.g1) = 2
    /\ Len(libIn.g2) = 2
    /\ libIn.g1[1] # libIn.g1[2]
    /\ geneToUint32(libIn.g1[1]) = geneToUint32(libIn.g1[2])
    /\ libOut.forward = Quotient(1, 2)

----
\* the parts of a step

\* a record of the move queue has just been processed
MoveRecordDrained == pc = "moves" /\ pc' = "moves" /\ cursor' = cursor + 1

\* the step is left: its queues are still as the agents filled them
StepLeft == pc = "moves" /\ pc' = "boundary"

\* the parts put together again make stepOnce: the simulator a step leaves
\* is one that stepOnce, taken whole, makes of the simulator it started from
StepRefinesStepOnce ==
    [][ StepLeft =>
          LET start == [simulator EXCEPT !.grid = stepStart.grid,
                                         !.individuals = stepStart.individuals,
                                         !.killDeaths = stepStart.killDeaths,
                                         !.deathQueue = <<>>,
                                         !.moveQueue = <<>>]
          IN \E d \in [LivingIndices(start) -> Decisions(TRUE)] :
                simulator' = stepOnce(start, d) ]_vars

\* C25: in drainMoveQueue a queued move is applied (source cell cleared,
\* destination cell set to the agent's index, agent.loc updated) if and only
\* if the agent is still alive after the death drain and the destination is
\* in bounds and empty at the moment the record is processed; otherwise the
\* grid and agent.loc are left unchanged.  In particular an agent killed in
\* a step does not move in that step.
C25_MoveAppliedIff ==
    [][ /\ MoveRecordDrained =>
            LET record == simulator.moveQueue[cursor]
                idx == record.indivIndex
                newLoc == record.newLoc
                indiv == simulator.individuals[idx]
            IN IF /\ indiv.alive
                  /\ GridIsInBounds(simulator.grid, newLoc)
                  /\ GridAt(simulator.grid, newLoc) = EMPTY
                 THEN /\ GridAt(simulator'.grid, indiv.loc) = EMPTY
                      /\ GridAt(simulator'.grid, newLoc) = idx
                      /\ simulator'.individuals[idx].loc = newLoc
                      /\ \A c \in GridCells(simulator.grid) \ {indiv.loc, newLoc} :
                            GridAt(simulator'.grid, c) = GridAt(simulator.grid, c)
                      /\ \A j \in 1 .. Len(simulator.individuals) :
                            j # idx => simulator'.individuals[j]
                                         = simulator.individuals[j]
                 ELSE /\ simulator'.grid = simulator.grid
                      /\ simulator'.individuals = simulator.individuals
        /\ StepLeft =>
            \A i \in 1 .. Len(simulator.individuals) :
                (stepStart.individuals[i].alive /\ ~simulator.individuals[i].alive)
                  => simulator.individuals[i].loc = stepStart.individuals[i].loc
      ]_vars

\* the record just processed is the move of an agent killed in this step,
\* to a cell that is still empty
C25_Witness ==
    /\ pc = "moves"
    /\ acted # NoArg
    /\ ~simulator.individuals[acted.record.indivIndex].alive
    /\ stepStart.individuals[acted.record.indivIndex].alive
    /\ GridIsEmptyAt(simulator.grid, acted.record.newLoc)
    /\ simulator.individuals[acted.record.indivIndex].loc
          = stepStart.individuals[acted.record.indivIndex].loc

\* the records of the move queue that ask for cell c
RecordsTo(queue, c) == { k \in 1 .. Len(queue) : queue[k].newLoc = c }

\* C26: when two or more living agents queue a move to the same empty cell
\* in one step, the moves are drained in ascending agent-index order: the
\* agent with the smallest index among those still alive moves into the cell
\* and every other agent's move to that cell is dropped.
C26_SmallestIndexWins ==
    [][ StepLeft =>
          LET queue == simulator.moveQueue
              agents == simulator.individuals
          IN /\ \A k, l \in 1 .. Len(queue) :
                   k < l => queue[k].indivIndex < queue[l].indivIndex
             /\ \A c \in GridCells(simulator.grid) :
                   Cardinality(RecordsTo(queue, c)) >= 2 =>
                     LET asking == { queue[k].indivIndex : k \in RecordsTo(queue, c) }
                         living == { i \in asking : agents[i].alive }
                     IN /\ GridAt(stepStart.grid, c) = EMPTY
                        /\ \A i \in asking : stepStart.individuals[i].alive
                        /\ IF living = {}
                             THEN GridAt(simulator.grid, c) = EMPTY
                             ELSE LET first == CHOOSE i \in living :
                                                 \A j \in living : i <= j
                                  IN /\ agents[first].loc = c
                                     /\ GridAt(simulator.grid, c) = first
                        /\ \A i \in asking :
                              (living = {} \/ \E j \in living : j < i)
                                => /\ agents[i].loc = stepStart.individuals[i].loc
                                   /\ agents[i].loc # c
      ]_vars

\* both agents asked for the same cell and the drain has gone through both
\* records: the first agent had been killed in the step and stayed, and the
\* second, the smallest index still alive, is in the cell
C26_Witness ==
    /\ pc = "moves"
    /\ cursor > Len(simulator.moveQueue)
    /\ Len(simulator.moveQueue) = 2
    /\ simulator.moveQueue[1].newLoc = simulator.moveQueue[2].newLoc
    /\ simulator.moveQueue[1].indivIndex = 1
    /\ simulator.moveQueue[2].indivIndex = 2
    /\ ~simulator.individuals[1].alive
    /\ simulator.individuals[1].loc = stepStart.individuals[1].loc
    /\ simulator.individuals[2].loc = simulator.moveQueue[2].newLoc

\* both agents asked for the same cell and both are alive: the first is in
\* the cell and the second where it was
BothAskedFirstMoved ==
    /\ pc = "moves"
    /\ cursor > Len(simulator.moveQueue)
    /\ Len(simulator.moveQueue) = 2
    /\ simulator.moveQueue[1].newLoc = simulator.moveQueue[2].newLoc
    /\ simulator.individuals[1].alive
    /\ simulator.individuals[2].alive
    /\ simulator.individuals[1].loc = simulator.moveQueue[1].newLoc
    /\ simulator.individuals[2].loc = stepStart.individuals[2].loc

\* C27: in every state at a step boundary (after init, stepOnce or
\* endGeneration) a grid cell holds a value v other than 0 and 0xFFFF if and
\* only if v is the index of a living agent whose loc is that cell; a dead
\* agent's index appears in no grid cell.
C27_GridMatchesLiving ==
    simulator # NoSimulator =>
        LET agents == simulator.individuals
            cells == GridCells(simulator.grid)
        IN /\ \A c \in cells :
                 LET v == GridAt(simulator.grid, c)
                 IN v \notin {EMPTY, BARRIER} =>
                       /\ v \in 1 .. Len(agents)
                       /\ agents[v].alive
                       /\ agents[v].loc = c
           /\ \A v \in 1 .. Len(agents) :
                 agents[v].alive =>
                    /\ v \notin {EMPTY, BARRIER}
                    /\ agents[v].loc \in cells
                    /\ GridAt(simulator.grid, agents[v].loc) = v
           /\ \A i \in 1 .. Len(agents) :
                 ~agents[i].alive =>
                    \A c \in cells : GridAt(simulator.grid, c) # i

\* a step has ended in which one agent died and another moved: the cell the
\* dead agent is recorded in no longer holds its index, and the cell the
\* other moved to holds that agent's index
C27_Witness ==
    /\ simulator # NoSimulator
    /\ lastOp = "stepOnce"
    /\ \E i, j \in 1 .. Len(simulator.individuals) :
          /\ ~simulator.individuals[i].alive
          /\ GridAt(simulator.grid, simulator.individuals[i].loc) # i
          /\ simulator.individuals[j].alive
          /\ simulator.individuals[j].lastMoveDir # CENTER
          /\ GridAt(simulator.grid, simulator.individuals[j].loc) = j
          /\ GridAt(simulator.grid,
                    coordAdd(simulator.individuals[j].loc,
                             Coord(- DirAsCoord(simulator.individuals[j].lastMoveDir).x,
                                   - DirAsCoord(simulator.individuals[j].lastMoveDir).y)))
               = EMPTY

\* the loop over the agents is running and the agent just visited was alive
AgentActed == pc = "agents" /\ acted # NoArg /\ ~acted.skipped

\* the simulator with the grid and the agents of the start of the step
AtStepStart ==
    [simulator EXCEPT !.grid = stepStart.grid,
                      !.individuals = stepStart.individuals]

\* the values the agent just visited read are those the world of the start
\* of the step gives
SensedAsAtStepStart ==
    AgentActed =>
        acted.sensors = getSensors(AtStepStart, stepStart.signals,
                                   stepStart.individuals[acted.index])

\* C28 as stated: during the per-agent phase of stepOnce (before the drains)
\* no world state read by sensors is modified by any agent's actions, so the
\* sensor values of agent j in a step do not depend on the actions executed
\* by agents i < j in the same step.
C28_SensorsReadStepStart ==
    pc = "agents" =>
        /\ simulator.grid = stepStart.grid
        /\ signals = stepStart.signals
        /\ SensedAsAtStepStart

\* C28, amended: during the per-agent phase of stepOnce no grid cell and no
\* agent's loc or alive flag is modified, so the sensor values of agent j that
\* are computed from the grid and the agents' positions do not depend on the
\* actions of agents i < j in the same step; the pheromone layer is raised at
\* once by EMIT_SIGNAL0 and never lowered in that phase.
C28_GridReadAtStepStart ==
    pc = "agents" =>
        /\ simulator.grid = stepStart.grid
        /\ \A i \in 1 .. Len(simulator.individuals) :
              /\ simulator.individuals[i].loc = stepStart.individuals[i].loc
              /\ simulator.individuals[i].alive = stepStart.individuals[i].alive
        /\ \A layer \in DOMAIN signals.layers :
              \A k \in DOMAIN signals.layers[layer] :
                 signals.layers[layer][k] >= stepStart.signals.layers[layer][k]
        /\ AgentActed =>
              acted.sensors.population
                 = SensorPopulation(AtStepStart, stepStart.individuals[acted.index])

\* agent 2 has just read a pheromone level above zero in a step that began
\* with the layer all zero, while a move of agent 1 waits in the queue and
\* the grid is as it was when the step began
C28_Witness ==
    /\ AgentActed
    /\ acted.index = 2
    /\ acted.sensors.signal0.num > 0
    /\ \A k \in DOMAIN stepStart.signals.layers[0] :
          stepStart.signals.layers[0][k] = 0
    /\ Len(simulator.moveQueue) >= 1
    /\ simulator.moveQueue[1].indivIndex = 1
    /\ simulator.grid = stepStart.grid

\* a living agent has just been visited by the loop over the agents
AgentVisited == pc = "agents" /\ pc' = "agents" /\ ~acted'.skipped

\* C29: in executeActions an agent's lastMoveDir is written if and only if
\* the agent enqueues a move in that step (quantized (dx,dy) # (0,0) and
\* target in bounds and empty at action time); it is then set immediately to
\* the compass direction whose unit offset equals (dx,dy) and keeps that
\* value even if the queued move is later dropped at drain time.
C29_LastMoveDirWithEnqueue ==
    [][ /\ AgentVisited =>
            LET i == cursor
                dx == acted'.decision.dx
                dy == acted'.decision.dy
                indiv == simulator.individuals[i]
                target == Coord(indiv.loc.x + dx, indiv.loc.y + dy)
                enqueues == /\ Coord(dx, dy) # Coord(0, 0)
                            /\ GridIsInBounds(simulator.grid, target)
                            /\ GridAt(simulator.grid, target) = EMPTY
                after == simulator'.individuals[i].lastMoveDir
            IN /\ IF enqueues
                    THEN /\ simulator'.moveQueue
                              = Append(simulator.moveQueue,
                                       [indivIndex |-> i, newLoc |-> target])
                         /\ after \in 0 .. 7
                         /\ DirAsCoord(after) = Coord(dx, dy)
                    ELSE /\ simulator'.moveQueue = simulator.moveQueue
                         /\ after = indiv.lastMoveDir
               /\ \A j \in 1 .. Len(simulator.individuals) :
                     j # i => simulator'.individuals[j].lastMoveDir
                                = simulator.individuals[j].lastMoveDir
        /\ ~AgentVisited =>
               \A j \in 1 .. Len(simulator.individuals) :
                  simulator'.individuals[j].lastMoveDir
                     = simulator.individuals[j].lastMoveDir
      ]_vars

\* the move drain has just dropped the record of a living agent: the agent
\* is where it was and its lastMoveDir points at the cell it asked for
C29_Witness ==
    /\ pc = "moves"
    /\ acted # NoArg
    /\ LET indiv == simulator.individuals[acted.record.indivIndex]
       IN /\ indiv.alive
          /\ indiv.loc # acted.record.newLoc
          /\ indiv.lastMoveDir # CENTER
          /\ coordAdd(indiv.loc, DirAsCoord(indiv.lastMoveDir))
                = acted.record.newLoc

\* while killEnable is false nothing is put in the death queue, no agent
\* dies and the counter does not move
NoDeathWithoutKillEnable ==
    [][ (simulator # NoSimulator /\ ~simulator.params.killEnable) =>
          /\ simulator'.deathQueue = simulator.deathQueue
          /\ simulator'.killDeaths = simulator.killDeaths
          /\ \A i \in 1 .. Len(simulator.individuals) :
                simulator'.individuals[i].alive = simulator.individuals[i].alive
      ]_vars

\* C30: while killEnable is false, no death is ever enqueued: every agent
\* placed at generation start remains alive until endGeneration and the
\* killDeaths counter stays 0.
C30_NoDeathsUnlessEnabled ==
    ~simulator.params.killEnable =>
        /\ simulator.deathQueue = <<>>
        /\ simulator.killDeaths = 0
        /\ Len(simulator.individuals) = simulator.params.population
        /\ \A i \in 1 .. Len(simulator.individuals) :
              simulator.individuals[i].alive

\* killing is disabled and the agent just visited decided to kill, facing a
\* cell that holds the other, living agent: the death queue is empty
C30_Witness ==
    /\ AgentActed
    /\ ~simulator.params.killEnable
    /\ acted.decision.kill
    /\ simulator.individuals[acted.index].lastMoveDir # CENTER
    /\ LET indiv == stepStart.individuals[acted.index]
           targetLoc == coordAdd(indiv.loc, DirAsCoord(indiv.lastMoveDir))
       IN /\ GridIsInBounds(simulator.grid, targetLoc)
          /\ GridAt(simulator.grid, targetLoc) \in 1 .. Len(simulator.individuals)
          /\ GridAt(simulator.grid, targetLoc) # acted.index
          /\ simulator.individuals[GridAt(simulator.grid, targetLoc)].alive
    /\ simulator.deathQueue = <<>>

\* C31: KILL_FORWARD never enqueues the death of the acting agent itself:
\* every death record enqueued by an agent names a different living agent,
\* for every value of the actor's lastMoveDir including the initial CENTER.
C31_NoSelfKill ==
    [][ AgentVisited =>
          \A k \in (Len(simulator.deathQueue) + 1) .. Len(simulator'.deathQueue) :
             LET target == simulator'.deathQueue[k].indivIndex
             IN /\ target \in 1 .. Len(simulator.individuals)
                /\ target # cursor
                /\ simulator.individuals[target].alive
      ]_vars

\* every death record enqueued names a living agent (its own index or not)
DeathRecordNamesLiving ==
    [][ AgentVisited =>
          \A k \in (Len(simulator.deathQueue) + 1) .. Len(simulator'.deathQueue) :
             LET target == simulator'.deathQueue[k].indivIndex
             IN /\ target \in 1 .. Len(simulator.individuals)
                /\ simulator.individuals[target].alive
      ]_vars

\* C32: within a generation an agent's alive flag never returns from false
\* to true, and a dead agent is skipped by every later stepOnce: its age, loc
\* and lastMoveDir no longer change and it enqueues no move or death.
C32_DeadStayDead ==
    [][ \A i \in 1 .. Len(simulator.individuals) :
           ~simulator.individuals[i].alive =>
              /\ ~simulator'.individuals[i].alive
              /\ simulator'.individuals[i] = simulator.individuals[i]
              /\ (pc = "agents" /\ cursor = i) =>
                    /\ simulator'.moveQueue = simulator.moveQueue
                    /\ simulator'.deathQueue = simulator.deathQueue
                    /\ signals' = signals
                    /\ cursor' = i + 1
              /\ \A k \in (Len(simulator.moveQueue) + 1) .. Len(simulator'.moveQueue) :
                    simulator'.moveQueue[k].indivIndex # i
      ]_vars

\* in the second step of the generation the loop has just skipped an agent
\* that lived through the first step's loop and was killed in it
C32_Witness ==
    /\ pc = "agents"
    /\ acted # NoArg
    /\ acted.skipped
    /\ simulator.simStep = 1
    /\ ~simulator.individuals[acted.index].alive
    /\ simulator.individuals[acted.index].age = 1
    /\ simulator.moveQueue = <<>>
    /\ \E j \in 1 .. Len(simulator.individuals) : simulator.individuals[j].alive

\* C33: in every reachable state, under any sequence of worker commands,
\* 0 <= simStep <= stepsPerGeneration: a generation never runs more than
\* stepsPerGeneration steps before endGeneration.
C33_SimStepBounded ==
    simulator # NoSimulator =>
        /\ 0 <= simulator.simStep
        /\ simulator.simStep <= simulator.params.stepsPerGeneration

\* the free-running loop alone never leaves simStep above stepsPerGeneration
LoopKeepsSimStepBounded ==
    [][ (/\ lastOp' \in {"start", "resume", "timer"}
         /\ simulator # NoSimulator
         /\ simulator.simStep <= simulator.params.stepsPerGeneration)
          => simulator'.simStep <= simulator'.params.stepsPerGeneration ]_vars

\* C34: the AGE sensor value age/stepsPerGeneration is always in [0,1]: for
\* every living agent in every reachable state, 0 <= age <=
\* stepsPerGeneration, whichever mix of step, stepGeneration and
\* free-running commands drove the simulation.
C34_AgeBounded ==
    simulator # NoSimulator =>
        \A i \in LivingIndices(simulator) :
            /\ 0 <= simulator.individuals[i].age
            /\ simulator.individuals[i].age <= simulator.params.stepsPerGeneration

\* a living agent is as old as the generation has steps
AgeIsSimStep ==
    simulator # NoSimulator =>
        \A i \in LivingIndices(simulator) :
            simulator.individuals[i].age = simulator.simStep

\* C35: for every agent in every reachable state (with config
\* longProbeDistance >= 1): oscPeriod >= 2, longProbeDist >= 1 and
\* 0 <= responsiveness <= 1, given that action levels are in [-1,1]; the
\* SET_OSCILLATOR_PERIOD, SET_LONGPROBE_DIST and SET_RESPONSIVENESS actions
\* preserve these bounds.
C35_SettingsBounded ==
    \A settings \in IF libOp = "idle"
                      THEN { createSettings(params) : params \in SettingsParams }
                      ELSE { libOut } :
       /\ settings.oscPeriod >= 2
       /\ settings.longProbeDist >= 1
       /\ settings.responsiveness.den > 0
       /\ settings.responsiveness.num >= 0
       /\ settings.responsiveness.num <= settings.responsiveness.den

\* executeActions ran with the level of SET_OSCILLATOR_PERIOD and of
\* SET_LONGPROBE_DIST at 0 and that of SET_RESPONSIVENESS at -1: the period
\* is the floor 2, the distance 1 and the responsiveness 0
C35_Witness ==
    /\ libOp = "executeActions"
    /\ libIn.params.longProbeDistance = 16
    /\ libIn.levels.oscPeriod = 0
    /\ libIn.levels.longProbeDist = 0
    /\ libIn.levels.responsiveness = - LevelScale
    /\ libOut.oscPeriod = 2
    /\ libOut.longProbeDist = 1
    /\ libOut.responsiveness.num = 0

\* C36: updateParams never desynchronises the configuration from the
\* allocated world: in every reachable state params.sizeX and params.sizeY
\* equal the dimensions of the Grid buffer, so a grid-size change takes
\* effect only through reset.
C36_ParamsMatchGrid ==
    simulator # NoSimulator =>
        /\ simulator.params.sizeX = simulator.grid.sizeX
        /\ simulator.params.sizeY = simulator.grid.sizeY

\* every command but updateParams leaves the configuration and the grid
\* with the same dimensions
OthersKeepParamsAndGrid ==
    [][ (lastOp' # "updateParams" /\ simulator' # NoSimulator
         /\ (simulator = NoSimulator
             \/ lastOp' \in {"init", "reset"}
             \/ simulator.params.sizeX = simulator.grid.sizeX))
          => simulator'.params.sizeX = simulator'.grid.sizeX ]_vars

\* C37: at any time at most one simulationLoop callback is pending: a start
\* or resume command received while the loop is already running does not
\* create a second concurrent timer chain, and stopLoop cancels every
\* pending callback.
C37_OneCallbackPending ==
    /\ Cardinality(timers) <= 1
    /\ lastOp \in {"pause", "step", "stepGeneration", "reset", "init"}
          => timers = {}

\* the handle the worker keeps is that of a pending callback or null, and
\* while only timers and commands other than start and resume act on a
\* worker with one callback pending, one callback at most stays pending
OneChainWithoutRestart ==
    [][ (Cardinality(timers) <= 1 /\ lastOp' \notin {"start", "resume"}
         /\ (timers # {} => animFrameTimeout \in timers))
          => Cardinality(timers') <= 1 ]_vars

\* C38: the killDeaths value recorded in the GenerationStats of an
\* endGeneration equals the number of distinct agents whose death was
\* drained during that generation (since init or the previous
\* endGeneration): the agents of the generation that are dead when it ends.
C38_KillDeathsOfGeneration ==
    [][ (lastOp' = "endGeneration" /\ simulator'.calls.threw = "none") =>
          simulator'.stats.killDeaths
             = Len(simulator.individuals) - Cardinality(LivingIndices(simulator))
      ]_vars

\* the counter holds the agents killed in all generations since init
KillDeathsSinceInit ==
    [][ /\ lastOp' = "stepOnce" =>
            simulator'.killDeaths - simulator.killDeaths
               = Cardinality(LivingIndices(simulator))
                   - Cardinality(LivingIndices(simulator'))
        /\ lastOp' = "endGeneration" =>
            /\ simulator'.killDeaths = simulator.killDeaths
            /\ simulator'.stats.killDeaths = simulator.killDeaths
      ]_vars

\* C39: the simulation runs generations 0..maxGenerations only: in every
\* reachable state generation <= maxGenerations, and once the free-running
\* loop's endGeneration brings generation to maxGenerations it sets running
\* to false and schedules no further callback.
C39_GenerationBounded ==
    simulator # NoSimulator =>
        /\ simulator.generation <= simulator.params.maxGenerations
        /\ (/\ lastOp \in {"start", "resume", "timer"}
            /\ simulator.calls.endGeneration > 0
            /\ simulator.generation >= simulator.params.maxGenerations
            /\ simulator.simStep = 0)
              => ~running

\* a run of the loop that ends a generation and leaves generation at
\* maxGenerations or above stops the worker and sets no timer
LoopStopsAtMaxGenerations ==
    [][ (/\ lastOp' \in {"start", "resume", "timer"}
         /\ simulator # NoSimulator
         /\ simulator'.calls.threw = "none"
         /\ simulator'.generation > simulator.generation
         /\ simulator'.generation >= simulator'.params.maxGenerations)
          => /\ ~running'
             /\ timers' \subseteq timers
             /\ animFrameTimeout' = animFrameTimeout ]_vars

\* the loop, started again after it had run all its generations, has ended
\* one generation more
RestartedLoopPassedMax ==
    /\ simulator # NoSimulator
    /\ lastOp \in {"start", "timer"}
    /\ simulator.generation > simulator.params.maxGenerations
    /\ \A k \in 1 .. Len(posted) : posted[k].type # "error"

====
